---- MODULE Spec2Model ----
(***************************************************************************)
(* Model of the MCP Foxxy Bridge server manager (server_manager.py) and    *)
(* of the request handlers of the bridge facade (bridge_server.py).        *)
(*                                                                         *)
(* Strings are sequences of lexemes: a letter, the underscore "_" or the   *)
(* scheme separator "://".  The namespace separator "__" is therefore two  *)
(* adjacent "_" lexemes, and a name may contain it.                        *)
(***************************************************************************)
EXTENDS Integers, Sequences, FiniteSets, Bags, TLC

VARIABLES
    bridge,     \* ServerManager.bridge_config.bridge (present = FALSE: None)
    configured, \* ServerManager.bridge_config.servers, as <<name, config>> pairs in dict order
    catalog,    \* what the child process of each upstream advertises and lists
    servers,    \* ServerManager.servers: the dict, as the sequence of its values in insertion order
    srv,        \* the ManagedServer objects, by object identity (index)
    locks,      \* ServerManager._restart_locks: name -> lock identity
    lk,         \* the asyncio.Lock objects, by identity (index)
    ready,      \* the event loop's queue of tasks that are ready to run, each with what it wakes up to
    waiting,    \* the tasks suspended on child I/O or on a timer (a bag)
    children,   \* the child processes entered into ServerManager._context_stack: the upstream of each
    phase,      \* "none" while no manager is constructed, "new" after construction,
                \* "started" once start() has been called,
                \* "stopping" once stop() has set the shutdown event, "stopped" when stop() has returned
    starting,   \* number of initial connect tasks start() is still gathering
    reloads,    \* the configurations the host may pass to update_servers
    budget,     \* how many more update_servers calls and I/O faults the environment issues
    obs         \* what the last downstream request caused and returned

vars == <<bridge, configured, catalog, servers, srv, locks, lk, ready, waiting,
          children, phase, starting, reloads, budget, obs>>

-----------------------------------------------------------------------------
(* Python values *)

None == <<"None">>

Sep == <<"_", "_">>

SchemeSep == <<"://">>

\* Python truthiness of an optional string
Truthy(x) == x # None /\ x # <<>>

\* d in s
Contains(s, d) ==
    \E i \in 1..(Len(s) - Len(d) + 1) : SubSeq(s, i, i + Len(d) - 1) = d

\* index of the first occurrence of d in s
FirstIndex(s, d) ==
    CHOOSE i \in 1..(Len(s) - Len(d) + 1) :
        /\ SubSeq(s, i, i + Len(d) - 1) = d
        /\ \A j \in 1..(i - 1) : SubSeq(s, j, j + Len(d) - 1) # d

\* s.split(d, 1) for an s that contains d
Split1(s, d) ==
    LET i == FirstIndex(s, d)
    IN  <<SubSeq(s, 1, i - 1), SubSeq(s, i + Len(d), Len(s))>>

\* f"{namespace}__{name}"
Namespaced(namespace, name) == namespace \o Sep \o name

\* pydantic AnyUrl(x) succeeds: a scheme of letters only, then "://"
ValidUrl(x) ==
    \E i \in 2..Len(x) :
        /\ x[i] = "://"
        /\ \A j \in 1..(i - 1) : x[j] \notin {"_", "://"}

-----------------------------------------------------------------------------
(* ServerStatus *)

CONNECTING == "connecting"
CONNECTED == "connected"
DISCONNECTED == "disconnected"
FAILED == "failed"
DISABLED == "disabled"

ServerStatus == {CONNECTING, CONNECTED, DISCONNECTED, FAILED, DISABLED}

Kinds == {"tools", "resources", "prompts"}

\* ServerHealth() as the dataclass constructs it
ServerHealth ==
    [status |-> CONNECTING, failure_count |-> 0, last_error |-> FALSE,
     capabilities |-> {}, consecutive_failures |-> 0, restart_count |-> 0,
     keep_alive_failures |-> 0]

\* ManagedServer(name=..., config=...)
ManagedServer(name, config) ==
    [name |-> name, config |-> config, session |-> 0, health |-> ServerHealth,
     tools |-> <<>>, resources |-> <<>>, prompts |-> <<>>]

\* the stored list of one capability kind
ListOf(server, kind) ==
    CASE kind = "tools" -> server.tools
      [] kind = "resources" -> server.resources
      [] kind = "prompts" -> server.prompts

get_effective_namespace_ToolNamespaceForAll(server, capability_type, bridge_config) ==
    IF Truthy(server.config.tool_namespace)
    THEN server.config.tool_namespace
    ELSE IF bridge_config.present /\ bridge_config.default_namespace
    THEN server.name
    ELSE None

get_effective_namespace(server, capability_type, bridge_config) ==
    IF capability_type = "tools" /\ Truthy(server.config.tool_namespace)
    THEN server.config.tool_namespace
    ELSE IF capability_type = "resources" /\ Truthy(server.config.resource_namespace)
    THEN server.config.resource_namespace
    ELSE IF capability_type = "prompts" /\ Truthy(server.config.prompt_namespace)
    THEN server.config.prompt_namespace
    ELSE IF bridge_config.present /\ bridge_config.default_namespace
    THEN server.name
    ELSE None

-----------------------------------------------------------------------------
(* Aggregation *)

RECURSIVE Filter(_, _)
Filter(seq, keep) ==
    IF seq = <<>> THEN <<>>
    ELSE IF Head(seq) \in keep THEN <<Head(seq)>> \o Filter(Tail(seq), keep)
    ELSE Filter(Tail(seq), keep)

get_active_servers_unfiltered ==
    servers

\* the connected servers, in dict order; the elements are object identities
get_active_servers ==
    Filter(servers, {o \in DOMAIN srv : srv[o].health.status = CONNECTED})

\* insert o into a list sorted by priority, after the elements that compare <=
RECURSIVE InsertByPriority(_, _)
InsertByPriority(sorted, o) ==
    IF sorted = <<>> THEN <<o>>
    ELSE IF srv[Head(sorted)].config.priority <= srv[o].config.priority
    THEN <<Head(sorted)>> \o InsertByPriority(Tail(sorted), o)
    ELSE <<o>> \o sorted

\* sorted(seq, key=lambda s: s.config.priority): stable
RECURSIVE SortedByPriority(_)
SortedByPriority(seq) ==
    IF seq = <<>> THEN <<>>
    ELSE InsertByPriority(SortedByPriority(SubSeq(seq, 1, Len(seq) - 1)), seq[Len(seq)])

\* the items one server yields for a kind, as the inner loop of the aggregator names them
RECURSIVE ItemsOf(_, _, _)
ItemsOf(o, kind, list) ==
    IF list = <<>> THEN <<>>
    ELSE LET namespace == get_effective_namespace(srv[o], kind, bridge)
             name == IF Truthy(namespace) THEN Namespaced(namespace, Head(list)) ELSE Head(list)
         IN  <<[name |-> name, original |-> Head(list), server |-> o]>>
             \o ItemsOf(o, kind, Tail(list))

\* the outer loop over the sorted active servers
RECURSIVE Candidates(_, _)
Candidates(active, kind) ==
    IF active = <<>> THEN <<>>
    ELSE ItemsOf(Head(active), kind, ListOf(srv[Head(active)], kind))
         \o Candidates(Tail(active), kind)

\* the conflict handling of the loop body; a result is the list, or the ValueError raised
RECURSIVE Deconflict(_, _, _, _)
Deconflict(cands, kind, acc, seen) ==
    IF cands = <<>> THEN [raised |-> FALSE, items |-> acc]
    ELSE LET c == Head(cands) IN
         IF c.name \in seen /\ bridge.present /\ bridge.conflict_resolution = "error"
         THEN [raised |-> TRUE, items |-> <<>>]
         ELSE IF c.name \in seen /\ bridge.present /\ bridge.conflict_resolution = "first"
         THEN Deconflict(Tail(cands), kind, acc, seen)
         ELSE IF kind = "resources" /\ ~ValidUrl(c.name)
         THEN Deconflict(Tail(cands), kind, acc, seen)
         ELSE Deconflict(Tail(cands), kind, Append(acc, c), seen \cup {c.name})

get_aggregated_Unsorted(kind) ==
    Deconflict(Candidates(get_active_servers, kind), kind, <<>>, {})

get_aggregated(kind) ==
    Deconflict(Candidates(SortedByPriority(get_active_servers), kind), kind, <<>>, {})

get_aggregated_tools == get_aggregated("tools")

get_aggregated_resources == get_aggregated("resources")

get_aggregated_prompts == get_aggregated("prompts")

-----------------------------------------------------------------------------
(* Routing *)

InList(list, x) == \E i \in 1..Len(list) : list[i] = x

\* the first server of the scan that satisfies the loop's condition, or 0
RECURSIVE FirstMatch(_, _, _, _)
FirstMatch(scan, kind, namespace, actual) ==
    IF scan = <<>> THEN 0
    ELSE IF /\ (namespace = None
                \/ get_effective_namespace(srv[Head(scan)], kind, bridge) = namespace)
            /\ InList(ListOf(srv[Head(scan)], kind), actual)
    THEN Head(scan)
    ELSE FirstMatch(Tail(scan), kind, namespace, actual)

\* the server and the upstream-local name that call_tool / read_resource /
\* get_prompt select; server = 0 when the ValueError "No active server found" is raised
Route(kind, id) ==
    LET parts == IF Contains(id, Sep) THEN Split1(id, Sep) ELSE <<None, id>>
        server == FirstMatch(get_active_servers, kind, parts[1], parts[2])
    IN  IF server = 0 \/ srv[server].session = 0
        THEN [server |-> 0, actual |-> parts[2]]
        ELSE [server |-> server, actual |-> parts[2]]

\* An answer is [type, code]: a result, an McpError with its error code, or
\* another exception.
ValueError == [type |-> "ValueError", code |-> 0]

ManagerCall_AnyServer(kind, id, answer) ==
    LET r == Route(kind, id) IN
    IF r.server = 0
    THEN [sent |-> <<[server |-> 1, name |-> id]>>, result |-> answer]
    ELSE [sent |-> <<[server |-> r.server, name |-> r.actual]>>, result |-> answer]

\* ServerManager.call_tool / read_resource / get_prompt: the requests sent
\* upstream, in order, and what the coroutine returns or raises, given the
\* upstream's answer
ManagerCall(kind, id, answer) ==
    LET r == Route(kind, id) IN
    IF r.server = 0
    THEN [sent |-> <<>>, result |-> ValueError]
    ELSE IF kind = "resources" /\ ~ValidUrl(r.actual)
    THEN [sent |-> <<>>, result |-> ValueError]
    ELSE [sent |-> <<[server |-> r.server, name |-> r.actual]>>, result |-> answer]

FacadeReply_McpErrorAsText(result) ==
    IF result.type = "result" THEN result
    ELSE [type |-> "text", code |-> 0]

\* the facade handlers _call_tool / _read_resource / _get_prompt: a result is
\* returned, an McpError is raised again, anything else becomes a text result
FacadeReply(result) ==
    IF result.type \in {"result", "McpError"} THEN result
    ELSE [type |-> "text", code |-> 0]

-----------------------------------------------------------------------------
(* The event loop.  A task is a record [kind, pc, server, sess, lock, work]:  *)
(* the coroutine it runs, the await it is suspended at, and its locals.       *)
(* The operators below map the manager's state M to the state after one       *)
(* segment of a coroutine, from one suspension point to the next.             *)

Cur ==
    [servers |-> servers, srv |-> srv, locks |-> locks, lk |-> lk, ready |-> ready,
     waiting |-> waiting, children |-> children,
     starting |-> starting]

Install(M) ==
    /\ servers' = M.servers
    /\ srv' = M.srv
    /\ locks' = M.locks
    /\ lk' = M.lk
    /\ ready' = M.ready
    /\ waiting' = M.waiting
    /\ children' = M.children
    /\ starting' = M.starting

NoWork == <<>>

Task(kind, pc, server) ==
    [kind |-> kind, pc |-> pc, server |-> server, sess |-> 0, lock |-> 0, work |-> NoWork]

\* the task awaits child I/O or a timer
Suspend(M, k) == [M EXCEPT !.waiting = @ (+) SetToBag({k})]

\* asyncio.create_task, and the wake-up of a task whose future was resolved
Schedule(M, k, outcome) == [M EXCEPT !.ready = Append(@, [task |-> k, outcome |-> outcome])]

\* health_check of a config (present = FALSE: None)
NoHealthCheck ==
    [present |-> FALSE, enabled |-> FALSE, auto_restart |-> FALSE,
     max_restart_attempts |-> 0, max_consecutive_failures |-> 0]

_disconnect_server(M, o) ==
    [M EXCEPT !.srv[o] =
        [@ EXCEPT !.session = 0,
                  !.health.status = DISCONNECTED,
                  !.health.consecutive_failures = 0,
                  !.health.keep_alive_failures = 0,
                  !.tools = <<>>,
                  !.resources = <<>>,
                  !.prompts = <<>>]]

\* asyncio.Lock.release: unlock and resolve the future of the first waiter
LockRelease(M, l) ==
    LET M1 == [M EXCEPT !.lk[l].locked = FALSE]
    IN  IF M1.lk[l].waiters = <<>> THEN M1
        ELSE Schedule(M1, Head(M1.lk[l].waiters), "lock")

\* _connect_server up to its first await (the spawn of the child)
ConnectBegin(M, k, o) ==
    Suspend([M EXCEPT !.srv[o].health.status = CONNECTING],
            [k EXCEPT !.pc = "spawn", !.server = o, !.sess = 0])

_server_config_changed(old_config, new_config) ==
    \/ old_config.enabled # new_config.enabled
    \/ old_config.command # new_config.command
    \/ old_config.priority # new_config.priority
    \/ old_config.health_check # new_config.health_check
    \/ old_config.tool_namespace # new_config.tool_namespace
    \/ old_config.resource_namespace # new_config.resource_namespace
    \/ old_config.prompt_namespace # new_config.prompt_namespace
    \/ old_config.tags # new_config.tags

\* new_server_configs[name]
ConfigOf(configs, name) ==
    (CHOOSE i \in 1..Len(configs) : configs[i][1] = name)

\* self.servers.get(name): the object stored under the name, or 0
ServerNamed(M, name) ==
    IF \E i \in 1..Len(M.servers) : M.srv[M.servers[i]].name = name
    THEN M.servers[CHOOSE i \in 1..Len(M.servers) : M.srv[M.servers[i]].name = name]
    ELSE 0

\* a new asyncio.Lock() stored under the name
NewLock(M, name) ==
    [M EXCEPT !.lk = Append(@, [locked |-> FALSE, waiters |-> <<>>]),
              !.locks = [n \in (DOMAIN @) \cup {name} |->
                            IF n = name THEN Len(M.lk) + 1 ELSE @[n]]]

\* ManagedServer(...) stored in self.servers, with its restart lock
NewServer(M, name, config) ==
    NewLock([M EXCEPT !.srv = Append(@, ManagedServer(name, config)),
                      !.servers = Append(@, Len(M.srv) + 1)],
            name)

_update_server_ReconnectingOnAnyChange(old_config, new_config) ==
    IF ~new_config.enabled THEN "disable"
    ELSE IF ~old_config.enabled THEN "enable"
    ELSE "reconnect"

\* the branch _update_server takes for the config it finds and the new one
_update_server(old_config, new_config) ==
    IF ~new_config.enabled THEN "disable"
    ELSE IF ~old_config.enabled THEN "enable"
    ELSE IF old_config.command # new_config.command THEN "reconnect"
    ELSE "replace"

\* the two loops of update_servers over servers_to_add and
\* servers_to_check_update, from the current item up to the next await
RECURSIVE UpdateContinue(_, _)
UpdateContinue(M, k) ==
    IF k.work.adds # <<>>
    THEN LET name == Head(k.work.adds)
             config == k.work.configs[ConfigOf(k.work.configs, name)][2]
             k1 == [k EXCEPT !.work.adds = Tail(@)]
         IN  IF ~config.enabled THEN UpdateContinue(M, k1)            \* _add_server returns
             ELSE ConnectBegin(NewServer(M, name, config), k1, Len(M.srv) + 1)
    ELSE IF k.work.updates # <<>>
    THEN LET name == Head(k.work.updates)
             new_config == k.work.configs[ConfigOf(k.work.configs, name)][2]
             k1 == [k EXCEPT !.work.updates = Tail(@)]
             o == ServerNamed(M, name)
         IN  IF o = 0 \/ ~_server_config_changed(M.srv[o].config, new_config)
             THEN UpdateContinue(M, k1)
             ELSE CASE _update_server(M.srv[o].config, new_config) = "disable" ->
                           UpdateContinue(
                               [_disconnect_server(M, o) EXCEPT
                                   !.srv[o].config = new_config,
                                   !.srv[o].health.status = DISABLED], k1)
                    [] _update_server(M.srv[o].config, new_config) = "enable" ->
                           ConnectBegin([M EXCEPT !.srv[o].config = new_config], k1, o)
                    [] _update_server(M.srv[o].config, new_config) = "reconnect" ->
                           ConnectBegin([_disconnect_server(M, o) EXCEPT
                                            !.srv[o].config = new_config], k1, o)
                    [] _update_server(M.srv[o].config, new_config) = "replace" ->
                           UpdateContinue([M EXCEPT !.srv[o].config = new_config], k1)
    ELSE M

\* the end of start(): the failover loop and the keep-alive loop are created
StartFinish(M) ==
    LET M1 == IF bridge.present /\ bridge.failover.present /\ bridge.failover.enabled
              THEN Schedule(M, Task("health", "loop", 0), "run")
              ELSE M
    IN  IF \E i \in 1..Len(M.servers) :
               /\ M.srv[M.servers[i]].config.health_check.present
               /\ M.srv[M.servers[i]].config.health_check.enabled
        THEN Schedule(M1, Task("keepalive", "loop", 0), "run")
        ELSE M1

\* _connect_server has returned to the coroutine that awaited it
ConnectReturn(M, k) ==
    CASE k.kind = "start" ->
            IF M.starting = 1
            THEN Schedule([M EXCEPT !.starting = 0], Task("main", "gathered", 0), "run")
            ELSE [M EXCEPT !.starting = @ - 1]
      [] k.kind = "update" -> UpdateContinue(M, k)
      [] k.kind = "restart" -> LockRelease(M, k.lock)

ConnectExcept_StatusOnly(M, k) ==
    ConnectReturn([M EXCEPT !.srv[k.server].health.status = FAILED], k)

\* the except clause of _connect_server
ConnectExcept(M, k) ==
    ConnectReturn(
        [M EXCEPT !.srv[k.server] =
            [@ EXCEPT !.health.status = FAILED,
                      !.health.failure_count = @ + 1,
                      !.health.consecutive_failures = @ + 1,
                      !.health.last_error = TRUE,
                      !.session = 0]],
        k)

LoadOrder == <<"tools", "resources", "prompts">>

\* _load_server_capabilities from the given kind on, up to the next await;
\* a list request on a session that is None raises inside the try of the loader
RECURSIVE LoadFrom(_, _, _)
LoadFrom(M, k, i) ==
    IF i > Len(LoadOrder) THEN ConnectReturn(M, k)
    ELSE IF LoadOrder[i] \notin M.srv[k.server].health.capabilities
    THEN LoadFrom(M, k, i + 1)
    ELSE IF M.srv[k.server].session = 0 THEN ConnectReturn(M, k)
    ELSE Suspend(M, [k EXCEPT !.pc = LoadOrder[i], !.sess = M.srv[k.server].session])

\* the name of the upstream whose child process a connection is
ChildName(M, c) == M.children[c]

\* the entry of a child process that the context stack has terminated
Closed == <<"closed">>

\* _connect_server resumed after the spawn of the child and the creation of the session
ConnectSpawned(M, k, outcome) ==
    IF outcome = "ok"
    THEN LET c == Len(M.children) + 1
         IN  Suspend([M EXCEPT !.children = Append(@, M.srv[k.server].name),
                               !.srv[k.server].session = c],
                     [k EXCEPT !.pc = "init", !.sess = c])
    ELSE ConnectExcept(M, k)

\* _connect_server resumed after session.initialize()
ConnectInitialized(M, k, outcome) ==
    IF outcome = "ok"
    THEN LET M1 == [M EXCEPT !.srv[k.server] =
                        [@ EXCEPT !.health.status = CONNECTED,
                                  !.health.failure_count = 0,
                                  !.health.consecutive_failures = 0,
                                  !.health.keep_alive_failures = 0,
                                  !.health.last_error = FALSE,
                                  !.health.capabilities = catalog[ChildName(M, k.sess)].caps]]
         IN  IF M1.srv[k.server].session = 0
             THEN ConnectReturn(M1, k)
             ELSE LoadFrom(M1, k, 1)
    ELSE ConnectExcept(M, k)

IndexOf(seq, x) == CHOOSE i \in 1..Len(seq) : seq[i] = x

\* _load_server_capabilities resumed after list_tools / list_resources / list_prompts
ConnectLoaded(M, k, outcome) ==
    LET listed == ListOf(catalog[ChildName(M, k.sess)], k.pc)
    IN  CASE outcome = "ok" ->
                LoadFrom(
                    CASE k.pc = "tools" -> [M EXCEPT !.srv[k.server].tools = listed]
                      [] k.pc = "resources" -> [M EXCEPT !.srv[k.server].resources = listed]
                      [] k.pc = "prompts" -> [M EXCEPT !.srv[k.server].prompts = listed],
                    k, IndexOf(LoadOrder, k.pc) + 1)
          [] outcome = "err" -> ConnectReturn(M, k)
          [] outcome = "timeout" -> ConnectExcept(M, k)

-----------------------------------------------------------------------------
(* Health supervision *)

\* the auto-restart condition of the two failure handlers
RestartWanted(server) ==
    /\ server.config.health_check.present
    /\ server.config.health_check.auto_restart
    /\ server.health.restart_count < server.config.health_check.max_restart_attempts

\* asyncio.create_task(self._restart_server(server))
ScheduleRestart(M, o) == Schedule(M, Task("restart", "begin", o), "run")

max_keep_alive_failures == 3

\* max_failures of _perform_health_checks
MaxFailures(server) ==
    IF bridge.present /\ bridge.failover.present THEN bridge.failover.max_failures
    ELSE IF server.config.health_check.present
    THEN server.config.health_check.max_consecutive_failures
    ELSE 3

\* the for loop of _perform_health_checks from the server after work.cur on,
\* up to the next probe; then the sleep of _health_check_loop.  The dict iterator
\* raises when the dict changed size since the loop began.
RECURSIVE HealthNext(_, _)
HealthNext(M, k) ==
    LET later == {i \in 1..Len(M.servers) : M.servers[i] > k.work.cur}
    IN  IF Len(M.servers) # k.work.size \/ later = {}
        THEN Suspend(M, [k EXCEPT !.pc = "sleep", !.server = 0, !.sess = 0, !.work = NoWork])
        ELSE LET o == M.servers[CHOOSE i \in later : \A j \in later : i <= j]
                 k1 == [k EXCEPT !.work.cur = o]
             IN  IF M.srv[o].health.status = CONNECTED /\ M.srv[o].session # 0
                 THEN Suspend(M, [k1 EXCEPT !.pc = "probe", !.server = o,
                                            !.sess = M.srv[o].session])
                 ELSE HealthNext(M, k1)

\* _health_check_loop entering _perform_health_checks
HealthLoop(M, k) ==
    HealthNext(M, [k EXCEPT !.work = [cur |-> 0, size |-> Len(M.servers)]])

HealthProbed_ThresholdExceeded(M, k, outcome) ==
    LET o == k.server IN
    IF outcome = "ok"
    THEN HealthNext([M EXCEPT !.srv[o].health.consecutive_failures = 0], k)
    ELSE LET M1 == [M EXCEPT !.srv[o] =
                        [@ EXCEPT !.health.failure_count = @ + 1,
                                  !.health.consecutive_failures = @ + 1,
                                  !.health.last_error = TRUE]]
         IN  IF M1.srv[o].health.consecutive_failures > MaxFailures(M1.srv[o])
             THEN LET M2 == _disconnect_server(
                                [M1 EXCEPT !.srv[o].health.status = FAILED], o)
                  IN  HealthNext(IF RestartWanted(M2.srv[o]) THEN ScheduleRestart(M2, o)
                                 ELSE M2, k)
             ELSE HealthNext(M1, k)

\* _perform_health_checks resumed after the probe of k.server
HealthProbed(M, k, outcome) ==
    LET o == k.server IN
    IF outcome = "ok"
    THEN HealthNext([M EXCEPT !.srv[o].health.consecutive_failures = 0], k)
    ELSE LET M1 == [M EXCEPT !.srv[o] =
                        [@ EXCEPT !.health.failure_count = @ + 1,
                                  !.health.consecutive_failures = @ + 1,
                                  !.health.last_error = TRUE]]
         IN  IF M1.srv[o].health.consecutive_failures >= MaxFailures(M1.srv[o])
             THEN LET M2 == _disconnect_server(
                                [M1 EXCEPT !.srv[o].health.status = FAILED], o)
                  IN  HealthNext(IF RestartWanted(M2.srv[o]) THEN ScheduleRestart(M2, o)
                                 ELSE M2, k)
             ELSE HealthNext(M1, k)

\* _perform_keep_alive_checks, for the servers whose interval has elapsed (due)
RECURSIVE KeepAliveChecks(_, _, _)
KeepAliveChecks(M, i, due) ==
    IF i > Len(M.servers) THEN M
    ELSE LET o == M.servers[i]
             server == M.srv[o]
         IN  IF \/ server.health.status # CONNECTED
                \/ server.session = 0
                \/ ~server.config.health_check.present
                \/ ~server.config.health_check.enabled
                \/ o \notin due
             THEN KeepAliveChecks(M, i + 1, due)
             ELSE KeepAliveChecks(Schedule(M, Task("probe", "begin", o), "run"), i + 1, due)

\* one iteration of _keep_alive_loop
KeepAliveLoop(M, k, due) ==
    Suspend(KeepAliveChecks(M, 1, due), [k EXCEPT !.pc = "sleep"])

\* _send_keep_alive up to the probe
SendKeepAlive(M, k) ==
    IF M.srv[k.server].session = 0 \/ ~M.srv[k.server].config.health_check.present
    THEN M
    ELSE Suspend(M, [k EXCEPT !.pc = "probe", !.sess = M.srv[k.server].session])

\* _send_keep_alive resumed after the probe; a health_check that became None
\* makes the restart condition raise, which ends the task
KeepAliveProbed(M, k, outcome) ==
    LET o == k.server IN
    IF outcome = "ok"
    THEN [M EXCEPT !.srv[o].health.keep_alive_failures = 0]
    ELSE LET M1 == [M EXCEPT !.srv[o].health.keep_alive_failures = @ + 1]
         IN  IF M1.srv[o].health.keep_alive_failures >= max_keep_alive_failures
             THEN LET M2 == _disconnect_server(
                                [M1 EXCEPT !.srv[o].health.status = FAILED,
                                           !.srv[o].health.consecutive_failures =
                                               @ + M1.srv[o].health.keep_alive_failures], o)
                  IN  IF RestartWanted(M2.srv[o]) THEN ScheduleRestart(M2, o) ELSE M2
             ELSE M1

\* _restart_server once it holds the lock, up to the sleep
RestartLocked(M, k) ==
    IF M.srv[k.server].health.status # FAILED
    THEN LockRelease(M, k.lock)
    ELSE Suspend([M EXCEPT !.srv[k.server].health.restart_count = @ + 1],
                 [k EXCEPT !.pc = "sleep"])

\* _restart_server up to the acquisition of the lock
_restart_server(M, k) ==
    LET name == M.srv[k.server].name
        M1 == IF name \in DOMAIN M.locks THEN M ELSE NewLock(M, name)
        l == M1.locks[name]
        k1 == [k EXCEPT !.lock = l, !.pc = "acquire"]
    IN  IF ~M1.lk[l].locked /\ M1.lk[l].waiters = <<>>
        THEN RestartLocked([M1 EXCEPT !.lk[l].locked = TRUE], k1)
        ELSE [M1 EXCEPT !.lk[l].waiters = Append(@, k1)]

\* a waiter of the lock resumed by a release
RestartAcquired(M, k) ==
    RestartLocked([M EXCEPT !.lk[k.lock].waiters = Tail(@), !.lk[k.lock].locked = TRUE], k)

\* _restart_server resumed after the restart delay
RestartWake(M, k) ==
    ConnectBegin(
        [_disconnect_server(M, k.server) EXCEPT
            !.srv[k.server].health.consecutive_failures = 0,
            !.srv[k.server].health.keep_alive_failures = 0],
        k, k.server)

-----------------------------------------------------------------------------
(* Reconfiguration and start *)

Names(M) == {M.srv[M.servers[i]].name : i \in 1..Len(M.servers)}

NamesIn(configs) == {configs[i][1] : i \in 1..Len(configs)}

RemoveAll_KeepingRecords(M, names) ==
    M

\* _remove_server for every name of the set (no await in between)
RemoveAll(M, names) ==
    LET gone == {o \in DOMAIN M.srv : M.srv[o].name \in names /\ ServerNamed(M, M.srv[o].name) = o}
        M1 == [M EXCEPT !.srv = [o \in DOMAIN @ |->
                                    IF o \in gone THEN _disconnect_server(M, o).srv[o] ELSE @[o]]]
    IN  [M1 EXCEPT !.servers = Filter(@, (DOMAIN M.srv) \ gone),
                   !.locks = [n \in (DOMAIN @) \ names |-> @[n]]]

update_servers_ReplacingAll(M, k) ==
    LET current_names == Names(M)
        new_names == NamesIn(k.work.configs)
        M1 == RemoveAll(M, current_names)
    IN  UpdateContinue(M1, [k EXCEPT !.work =
            [configs |-> k.work.configs,
             adds |-> Filter(k.work.order, new_names),
             updates |-> <<>>]])

\* update_servers up to its first await; work.order is the order in which the
\* sets servers_to_add and servers_to_check_update are iterated
update_servers(M, k) ==
    LET current_names == Names(M)
        new_names == NamesIn(k.work.configs)
        M1 == RemoveAll(M, current_names \ new_names)
    IN  UpdateContinue(M1, [k EXCEPT !.work =
            [configs |-> k.work.configs,
             adds |-> Filter(k.work.order, new_names \ current_names),
             updates |-> Filter(k.work.order, current_names \cap new_names)]])

\* the records and locks start() creates for the enabled configs
RECURSIVE CreateManaged(_, _)
CreateManaged(M, i) ==
    IF i > Len(configured) THEN M
    ELSE IF ~configured[i][2].enabled THEN CreateManaged(M, i + 1)
    ELSE CreateManaged(NewServer(M, configured[i][1], configured[i][2]), i + 1)

RECURSIVE CreateConnectTasks(_, _)
CreateConnectTasks(M, i) ==
    IF i > Len(M.servers) THEN M
    ELSE CreateConnectTasks(Schedule(M, Task("start", "begin", M.servers[i]), "run"), i + 1)

\* start() up to the gather of the connection tasks
start(M) ==
    LET M1 == CreateManaged(M, 1)
    IN  IF M1.servers = <<>> THEN StartFinish(M1)
        ELSE [CreateConnectTasks(M1, 1) EXCEPT !.starting = Len(M1.servers)]

-----------------------------------------------------------------------------
(* Stop *)

Exists(M, kind) ==
    \/ \E i \in 1..Len(M.ready) : M.ready[i].task.kind = kind
    \/ \E k \in BagToSet(M.waiting) : k.kind = kind

\* Task.cancel() on the loop task of the kind: a suspended task is woken with
\* CancelledError, a task that is already scheduled gets it when it runs
Cancel(M, kind) ==
    LET suspended == {k \in BagToSet(M.waiting) : k.kind = kind}
    IN  IF suspended # {}
        THEN LET k == CHOOSE k \in suspended : TRUE
             IN  [M EXCEPT !.waiting = @ (-) SetToBag({k}),
                           !.ready = Append(@, [task |-> k, outcome |-> "cancel"])]
        ELSE [M EXCEPT !.ready = [i \in DOMAIN @ |->
                                    IF @[i].task.kind = kind
                                    THEN [@[i] EXCEPT !.outcome = "cancel"]
                                    ELSE @[i]]]

\* the loop task of the kind has ended: a stop() that awaits it is woken
TaskDone(M, kind) ==
    LET joiners == {k \in BagToSet(M.waiting) :
                       k.kind = "stop" /\ k.pc = "join" /\ k.work.awaited = kind}
    IN  IF joiners = {} THEN M
        ELSE LET k == CHOOSE k \in joiners : TRUE
             IN  [M EXCEPT !.waiting = @ (-) SetToBag({k}),
                           !.ready = Append(@, [task |-> k, outcome |-> "done"])]

\* stop() from the close of the context stack on
StopClose(M, k) == Suspend(M, [k EXCEPT !.pc = "close", !.work = NoWork])

\* stop() from the cancellation of the keep-alive task on
StopKeepAlive(M, k) ==
    IF Exists(M, "keepalive")
    THEN Suspend(Cancel(M, "keepalive"),
                 [k EXCEPT !.pc = "join", !.work = [awaited |-> "keepalive"]])
    ELSE StopClose(M, k)

\* stop() up to its first await
stop(M) ==
    LET k == Task("stop", "begin", 0)
    IN  IF Exists(M, "health")
        THEN Suspend(Cancel(M, "health"),
                     [k EXCEPT !.pc = "join", !.work = [awaited |-> "health"]])
        ELSE StopKeepAlive(M, k)

\* the context stack has been closed: every child process entered so far is
\* terminated
StopClosed(M) == [M EXCEPT !.children = [c \in DOMAIN @ |-> Closed]]

-----------------------------------------------------------------------------
(* Bounds *)

MaxUpdates == 1

MaxFaults == 3

MaxChildren == 3

MaxProbes == 1

-----------------------------------------------------------------------------
(* Actions: the environment *)

NoObs == [op |-> "none"]

AnyKind == {"start", "update", "restart", "health", "keepalive", "probe", "main", "stop"}

Static == UNCHANGED <<bridge, configured, catalog, reloads>>

Tasks ==
    {ready[i].task : i \in 1..Len(ready)} \cup BagToSet(waiting)
    \cup UNION {{lk[l].waiters[i] : i \in 1..Len(lk[l].waiters)} : l \in DOMAIN lk}

Outcomes(pc) ==
    CASE pc \in {"spawn", "init", "probe"} -> {"ok", "fail"}
      [] pc \in {"tools", "resources", "prompts"} -> {"ok", "err", "timeout"}
      [] pc = "sleep" -> {"wake"}
      [] pc = "close" -> {"ok"}
      [] pc = "join" -> {}

Wake(k, outcome) ==
    /\ waiting' = waiting (-) SetToBag({k})
    /\ ready' = Append(ready, [task |-> k, outcome |-> outcome])
    /\ UNCHANGED <<servers, srv, locks, lk, children, phase, starting, obs>>
    /\ Static

\* the child answers a request of a task of the kind; a spawn succeeds and the
\* children terminate when the context stack is closed
ChildAnswersTo(kind) ==
    \E k \in BagToSet(waiting) :
        /\ k.kind = kind
        /\ "ok" \in Outcomes(k.pc)
        /\ k.sess # 0 => children[k.sess] # Closed
        /\ k.pc = "spawn" =>
              Len(children) + Cardinality({i \in 1..Len(ready) :
                    ready[i].task.pc = "spawn" /\ ready[i].outcome = "ok"}) < MaxChildren
        /\ Wake(k, "ok")
        /\ UNCHANGED budget

ChildAnswers == \E kind \in AnyKind : ChildAnswersTo(kind)

Fails(k, outcome) ==
    /\ budget.faults > 0
    /\ Wake(k, outcome)
    /\ budget' = [budget EXCEPT !.faults = @ - 1]

\* a request fails or runs into its timeout
ChildFails ==
    \E k \in BagToSet(waiting) :
        \E outcome \in Outcomes(k.pc) \ {"ok", "wake"} : Fails(k, outcome)

\* a request to a child that has been terminated fails
ChildGone ==
    \E k \in BagToSet(waiting) :
        /\ k.sess # 0
        /\ children[k.sess] = Closed
        /\ \/ k.pc \in {"init", "probe"} /\ Wake(k, "fail")
           \/ k.pc \in {"tools", "resources", "prompts"} /\ Wake(k, "err")
        /\ UNCHANGED budget

\* the child process cannot be started
SpawnFails ==
    \E k \in BagToSet(waiting) : k.pc = "spawn" /\ Fails(k, "fail")

\* the asyncio.sleep of a task of the kind ends
TimerFiresFor(kind) ==
    \E k \in BagToSet(waiting) :
        /\ k.kind = kind
        /\ k.pc = "sleep"
        /\ Wake(k, "wake")
        /\ UNCHANGED budget

TimerFires == \E kind \in AnyKind : TimerFiresFor(kind)

\* the host calls start()
CallStart ==
    /\ phase = "new"
    /\ phase' = "started"
    /\ Install(start(Cur))
    /\ UNCHANGED <<budget, obs>>
    /\ Static

\* the 30 s timeout of the gather in start(): wait_for cancels the connection
\* tasks, which end without touching their server, and start() goes on
StartTimeout ==
    LET cancelled == {k \in Tasks : k.kind = "start"}
        kept == {i \in 1..Len(ready) : ready[i].task \notin cancelled}
        KeptReady == [i \in 1..Cardinality(kept) |->
                        ready[CHOOSE j \in kept : Cardinality({l \in kept : l <= j}) = i]]
    IN  /\ starting > 0
        /\ starting' = 0
        /\ ready' = Append(KeptReady, [task |-> Task("main", "gathered", 0), outcome |-> "run"])
        /\ waiting' = [k \in (DOMAIN waiting) \ cancelled |-> waiting[k]]
        /\ UNCHANGED <<servers, srv, locks, lk, children, phase, budget, obs>>
        /\ Static

\* the host calls stop(), once start() has returned and no reload is running
CallStop ==
    /\ phase = "started"
    /\ starting = 0
    /\ \A k \in Tasks : k.kind \notin {"start", "main", "update"}
    /\ phase' = "stopping"
    /\ Install(stop(Cur))
    /\ UNCHANGED <<budget, obs>>
    /\ Static

\* the host calls update_servers(new_server_configs); calls do not overlap
CallUpdateServers ==
    \E configs \in reloads :
        /\ phase = "started"
        /\ budget.updates > 0
        /\ \A k \in Tasks : k.kind # "update"
        /\ budget' = [budget EXCEPT !.updates = @ - 1]
        /\ Install(Schedule(Cur,
               [Task("update", "begin", 0) EXCEPT
                   !.work = [configs |-> configs,
                             order |-> [i \in 1..Len(configs) |-> configs[i][1]]]],
               "run"))
        /\ UNCHANGED <<phase, obs>>
        /\ Static

-----------------------------------------------------------------------------
(* Actions: the event loop runs the task at the head of the ready queue *)

Popped == [Cur EXCEPT !.ready = Tail(@)]

Runs(kinds, pcs, outcomes) ==
    /\ ready # <<>>
    /\ Head(ready).task.kind \in kinds
    /\ Head(ready).task.pc \in pcs
    /\ Head(ready).outcome \in outcomes
    /\ UNCHANGED <<phase, budget, obs>>
    /\ Static

RunStartConnect ==
    /\ Runs({"start"}, {"begin"}, {"run"})
    /\ Install(ConnectBegin(Popped, Head(ready).task, Head(ready).task.server))

RunConnectSpawned ==
    /\ Runs(AnyKind, {"spawn"}, {"ok", "fail"})
    /\ Install(ConnectSpawned(Popped, Head(ready).task, Head(ready).outcome))

RunConnectInitialized ==
    /\ Runs(AnyKind, {"init"}, {"ok", "fail"})
    /\ Install(ConnectInitialized(Popped, Head(ready).task, Head(ready).outcome))

RunConnectLoaded ==
    /\ Runs(AnyKind, {"tools", "resources", "prompts"}, {"ok", "err", "timeout"})
    /\ Install(ConnectLoaded(Popped, Head(ready).task, Head(ready).outcome))

RunStartGathered ==
    /\ Runs({"main"}, {"gathered"}, {"run"})
    /\ Install(StartFinish(Popped))

\* the loop ends when the shutdown event is set
RunHealthLoop ==
    /\ Runs({"health"}, {"loop", "sleep"}, {"run", "wake"})
    /\ IF phase = "started"
       THEN Install(HealthLoop(Popped, Head(ready).task))
       ELSE Install(TaskDone(Popped, "health"))

\* CancelledError ends the loop
RunHealthCancelled ==
    /\ Runs({"health"}, {"loop", "sleep", "probe"}, {"cancel"})
    /\ Install(TaskDone(Popped, "health"))

RunHealthProbed ==
    /\ Runs({"health"}, {"probe"}, {"ok", "fail"})
    /\ Install(HealthProbed(Popped, Head(ready).task, Head(ready).outcome))

\* the probes in flight for a server
ProbesOf(o) == {k \in Tasks : k.kind = "probe" /\ k.server = o}

\* the loop ends when the shutdown event is set
RunKeepAliveLoop ==
    /\ Runs({"keepalive"}, {"loop", "sleep"}, {"run", "wake"})
    /\ IF phase = "started"
       THEN \E due \in SUBSET {o \in DOMAIN srv : Cardinality(ProbesOf(o)) < MaxProbes} :
                Install(KeepAliveLoop(Popped, Head(ready).task, due))
       ELSE Install(TaskDone(Popped, "keepalive"))

\* CancelledError ends the loop
RunKeepAliveCancelled ==
    /\ Runs({"keepalive"}, {"loop", "sleep"}, {"cancel"})
    /\ Install(TaskDone(Popped, "keepalive"))

RunSendKeepAlive ==
    /\ Runs({"probe"}, {"begin"}, {"run"})
    /\ Install(SendKeepAlive(Popped, Head(ready).task))

RunKeepAliveProbed ==
    /\ Runs({"probe"}, {"probe"}, {"ok", "fail"})
    /\ Install(KeepAliveProbed(Popped, Head(ready).task, Head(ready).outcome))

RunRestart ==
    /\ Runs({"restart"}, {"begin"}, {"run"})
    /\ Install(_restart_server(Popped, Head(ready).task))

RunRestartAcquired ==
    /\ Runs({"restart"}, {"acquire"}, {"lock"})
    /\ Install(RestartAcquired(Popped, Head(ready).task))

RunRestartWake ==
    /\ Runs({"restart"}, {"sleep"}, {"wake"})
    /\ Install(RestartWake(Popped, Head(ready).task))

RunUpdateServers ==
    /\ Runs({"update"}, {"begin"}, {"run"})
    /\ Install(update_servers(Popped, Head(ready).task))

\* stop() resumed when the loop task it awaited has ended
RunStopJoined ==
    /\ Runs({"stop"}, {"join"}, {"done"})
    /\ IF Head(ready).task.work.awaited = "health"
       THEN Install(StopKeepAlive(Popped, Head(ready).task))
       ELSE Install(StopClose(Popped, Head(ready).task))

\* stop() resumed when the context stack is closed: it returns
RunStopClosed ==
    /\ ready # <<>>
    /\ Head(ready).task.kind = "stop"
    /\ Head(ready).task.pc = "close"
    /\ Head(ready).outcome = "ok"
    /\ phase' = "stopped"
    /\ Install(StopClosed(Popped))
    /\ UNCHANGED <<budget, obs>>
    /\ Static

-----------------------------------------------------------------------------
(* The supervisor: one upstream, failover and keep-alive enabled *)

LifeBridge ==
    [present |-> TRUE, default_namespace |-> FALSE, conflict_resolution |-> "priority",
     failover |-> [present |-> TRUE, enabled |-> TRUE, max_failures |-> 1]]

LifeHealthCheck(max_restart_attempts) ==
    [present |-> TRUE, enabled |-> TRUE, auto_restart |-> TRUE,
     max_restart_attempts |-> max_restart_attempts, max_consecutive_failures |-> 3]

LifeCatalog ==
    [n \in {<<"a">>} |->
        [caps |-> {"tools", "resources"}, tools |-> <<<<"t">>>>,
         resources |-> <<<<"f", "://", "x">>>>, prompts |-> <<>>]]

\* the config of the supervised upstream
LifeConfig(enabled, command, priority, health_check) ==
    [enabled |-> enabled, command |-> command, priority |-> priority,
     tool_namespace |-> None, resource_namespace |-> None, prompt_namespace |-> None,
     tags |-> {}, health_check |-> health_check]

\* the configurations the host may reload: no upstream, or the upstream
\* unchanged, with another command, disabled, or with another priority
ReloadConfigs(health_check) ==
    {<<>>} \cup
    {<<<<<<"a">>, c>>>> : c \in {LifeConfig(TRUE, 1, 1, health_check),
                                LifeConfig(TRUE, 2, 1, health_check),
                                LifeConfig(FALSE, 1, 1, health_check),
                                LifeConfig(TRUE, 1, 2, health_check)}}

Init ==
    /\ bridge = LifeBridge
    /\ \E m \in {0, 2} :
           /\ configured = <<<<<<"a">>, LifeConfig(TRUE, 1, 1, LifeHealthCheck(m))>>>>
           /\ reloads = ReloadConfigs(LifeHealthCheck(m))
    /\ catalog = LifeCatalog
    /\ servers = <<>>
    /\ srv = <<>>
    /\ locks = <<>>
    /\ lk = <<>>
    /\ ready = <<>>
    /\ waiting = EmptyBag
    /\ children = <<>>
    /\ phase = "new"
    /\ starting = 0
    /\ budget = [updates |-> MaxUpdates, faults |-> MaxFaults]
    /\ obs = NoObs

Next ==
    \/ CallStart
    \/ StartTimeout
    \/ CallUpdateServers
    \/ ChildAnswers
    \/ ChildFails
    \/ TimerFires
    \/ RunStartConnect
    \/ RunConnectSpawned
    \/ RunConnectInitialized
    \/ RunConnectLoaded
    \/ RunStartGathered
    \/ RunHealthLoop
    \/ RunHealthProbed
    \/ RunKeepAliveLoop
    \/ RunSendKeepAlive
    \/ RunKeepAliveProbed
    \/ RunRestart
    \/ RunRestartAcquired
    \/ RunRestartWake
    \/ RunUpdateServers

Spec == Init /\ [][Next]_vars

TypeOK ==
    /\ \A o \in DOMAIN srv : srv[o].health.status \in ServerStatus
    /\ \A i \in 1..Len(servers) : servers[i] \in DOMAIN srv

-----------------------------------------------------------------------------
(* The facade: downstream requests on a bridge of two upstreams, each of     *)
(* which connects or fails to spawn within the 30 s that start() waits       *)

\* no task is ready or suspended: start() has finished
Idle == phase = "started" /\ ready = <<>> /\ waiting = EmptyBag

Answers ==
    {[type |-> "result", code |-> 0], [type |-> "Exception", code |-> 0],
     [type |-> "McpError", code |-> -32000], [type |-> "McpError", code |-> -32602]}

Request_RetryOnFailure(kind, id, answer) ==
    LET call == ManagerCall(kind, id, answer)
        others == {o \in DOMAIN srv : /\ srv[o].health.status = CONNECTED
                                      /\ call.sent # <<>>
                                      /\ o # call.sent[1].server
                                      /\ InList(ListOf(srv[o], kind), call.sent[1].name)}
        retried == call.sent # <<>> /\ answer.type # "result" /\ others # {}
    IN  /\ Idle
        /\ obs' = [op |-> kind, id |-> id,
                   sent |-> IF retried
                            THEN Append(call.sent, [server |-> CHOOSE o \in others : TRUE,
                                                    name |-> call.sent[1].name])
                            ELSE call.sent,
                   answer |-> answer,
                   reply |-> IF retried THEN [type |-> "result", code |-> 0]
                             ELSE FacadeReply(call.result)]
        /\ UNCHANGED <<servers, srv, locks, lk, ready, waiting, children, phase,
                       starting, budget>>
        /\ Static

\* _call_tool / _read_resource / _get_prompt of the facade on top of the
\* manager's call_tool / read_resource / get_prompt
Request(kind, id, answer) ==
    LET call == ManagerCall(kind, id, answer)
    IN  /\ Idle
        /\ obs' = [op |-> kind, id |-> id, sent |-> call.sent, answer |-> answer,
                   reply |-> FacadeReply(call.result)]
        /\ UNCHANGED <<servers, srv, locks, lk, ready, waiting, children, phase,
                       starting, budget>>
        /\ Static

s_ == <<"s">>

t_ == <<"t">>

a__s == <<"a", "_", "_", "s">>

n__m == <<"n", "_", "_", "m">>

fx == <<"f", "://", "x">>

fy == <<"f", "://", "y">>

\* the identifiers a downstream client asks for
ToolIds ==
    {s_, t_, a__s, <<"b", "_", "_", "s">>, <<"n", "_", "_", "s">>,
     <<"n", "_", "_", "m", "_", "_", "s">>, <<"a", "_", "_", "a", "_", "_", "s">>,
     <<"z">>}

ResourceIds == {fx, fy, <<"a", "_", "_", "f", "://", "x">>, <<"n", "_", "_", "f", "://", "x">>}

PromptIds == {s_, a__s, <<"n", "_", "_", "s">>, <<"z">>}

CallTool == \E id \in ToolIds, answer \in Answers : Request("tools", id, answer)

ReadResource == \E id \in ResourceIds, answer \in Answers : Request("resources", id, answer)

GetPrompt == \E id \in PromptIds, answer \in Answers : Request("prompts", id, answer)

RouteBridges ==
    {[present |-> FALSE, default_namespace |-> FALSE, conflict_resolution |-> "priority",
      failover |-> [present |-> FALSE, enabled |-> FALSE, max_failures |-> 3]]}
    \cup {[present |-> TRUE, default_namespace |-> d, conflict_resolution |-> c,
           failover |-> [present |-> FALSE, enabled |-> FALSE, max_failures |-> 3]] :
             d \in BOOLEAN, c \in {"priority", "first"}}
    \cup {[present |-> TRUE, default_namespace |-> FALSE, conflict_resolution |-> c,
           failover |-> [present |-> FALSE, enabled |-> FALSE, max_failures |-> 3]] :
             c \in {"namespace", "error"}}

RouteConfig(priority, tool_namespace, other_namespace) ==
    [enabled |-> TRUE, command |-> 1, priority |-> priority,
     tool_namespace |-> tool_namespace, resource_namespace |-> other_namespace,
     prompt_namespace |-> other_namespace, tags |-> {}, health_check |-> NoHealthCheck]

\* a namespace containing "__" is configured for tools only
RouteConfigs(priorities, namespaces) ==
    {RouteConfig(p, ns, IF ns = n__m THEN None ELSE ns) :
        p \in priorities, ns \in namespaces}

RouteCatalogA ==
    [caps |-> Kinds, tools |-> <<s_, t_>>, resources |-> <<fx>>, prompts |-> <<s_>>]

RouteCatalogs ==
    {RouteCatalogA,
     [caps |-> Kinds, tools |-> <<a__s, s_>>, resources |-> <<fy, fx>>, prompts |-> <<a__s>>]}

RouteInit ==
    /\ bridge \in RouteBridges
    /\ \E ca \in RouteConfigs({1, 2}, {None, <<"n">>, n__m}),
          cb \in RouteConfigs({1}, {None, <<"n">>}) :
           configured = <<<<<<"a">>, ca>>, <<<<"b">>, cb>>>>
    /\ \E c \in RouteCatalogs :
           catalog = [n \in {<<"a">>, <<"b">>} |->
                         IF n = <<"a">> THEN RouteCatalogA ELSE c]
    /\ servers = <<>>
    /\ srv = <<>>
    /\ locks = <<>>
    /\ lk = <<>>
    /\ ready = <<>>
    /\ waiting = EmptyBag
    /\ children = <<>>
    /\ phase = "new"
    /\ starting = 0
    /\ reloads = {}
    /\ budget = [updates |-> 0, faults |-> MaxFaults]
    /\ obs = NoObs

RouteNext ==
    \/ CallStart
    \/ ChildAnswers
    \/ SpawnFails
    \/ RunStartConnect
    \/ RunConnectSpawned
    \/ RunConnectInitialized
    \/ RunConnectLoaded
    \/ RunStartGathered
    \/ CallTool
    \/ ReadResource
    \/ GetPrompt

RouteSpec == RouteInit /\ [][RouteNext]_vars

-----------------------------------------------------------------------------
(* Properties of aggregation and routing (RouteSpec) *)

Connected == {o \in DOMAIN srv : InList(servers, o) /\ srv[o].health.status = CONNECTED}

\* the connected upstreams whose stored list of the kind contains the name
Offering(kind, name) == {o \in Connected : InList(ListOf(srv[o], kind), name)}

\* the upstream of the set that the aggregator visits first
FirstVisited(S) ==
    CHOOSE o \in S : \A p \in S :
        \/ srv[o].config.priority < srv[p].config.priority
        \/ srv[o].config.priority = srv[p].config.priority /\ o <= p

Aggregated(kind) == get_aggregated(kind).items

\* C1: under conflict_resolution priority, first or namespace, no aggregated
\* list (tools, resources, prompts) holds two items with the same identifier.
C1_UniqueIdentifiers ==
    (bridge.present /\ bridge.conflict_resolution \in {"priority", "first", "namespace"}) =>
        \A kind \in Kinds :
            \A i, j \in 1..Len(Aggregated(kind)) :
                i # j => Aggregated(kind)[i].name # Aggregated(kind)[j].name

\* C2: a request on an identifier without namespace that several connected
\* upstreams offer is sent to the one with the lowest priority number, and to
\* no other upstream.
C2_RoutesToLowestPriority ==
    (/\ obs.op \in Kinds
     /\ ~Contains(obs.id, Sep)
     /\ Cardinality(Offering(obs.op, obs.id)) >= 2) =>
        obs.sent = <<[server |-> FirstVisited(Offering(obs.op, obs.id)), name |-> obs.id]>>

\* C3: every item that the aggregator emits for a connected upstream U under
\* an identifier id_out is routed, by a call on id_out, to U with the item's
\* original name.
C3_NamespacingRoundTrip ==
    \A kind \in Kinds :
        \A i \in 1..Len(Aggregated(kind)) :
            LET item == Aggregated(kind)[i]
            IN  ManagerCall(kind, item.name, [type |-> "result", code |-> 0]).sent
                    = <<[server |-> item.server, name |-> item.original]>>

\* C9: an MCP error answered by the routed upstream reaches the downstream
\* caller as that same MCP error (same code), never as a text result, and the
\* request changes no upstream's status or counters.
C9_McpErrorPropagated ==
    [][(obs' # obs) =>
          /\ srv' = srv
          /\ (obs'.sent # <<>> /\ obs'.answer.type = "McpError") => obs'.reply = obs'.answer]_vars

C9_Witness ==
    /\ obs.op \in Kinds
    /\ obs.sent # <<>>
    /\ obs.answer = [type |-> "McpError", code |-> -32000]
    /\ obs.reply.type = "McpError"

\* the connected upstreams that qualify for an identifier under the router's rule
Owners(kind, id) ==
    IF Contains(id, Sep)
    THEN {o \in Offering(kind, Split1(id, Sep)[2]) :
             get_effective_namespace(srv[o], kind, bridge) = Split1(id, Sep)[1]}
    ELSE Offering(kind, id)

\* C10: a request on an identifier that no connected upstream owns is sent to
\* no upstream and is answered with a text result.
C10_NotFoundIsTextResult ==
    (obs.op \in Kinds /\ Owners(obs.op, obs.id) = {}) =>
        (obs.sent = <<>> /\ obs.reply.type = "text")

\* the only upstreams offering the tool are failed
C10_Witness ==
    /\ obs.op = "tools"
    /\ obs.id = s_
    /\ obs.reply.type = "text"
    /\ \A i \in 1..Len(servers) : srv[servers[i]].health.status = FAILED
    /\ Len(servers) = 2

\* id ends with the name
IsSuffix(name, id) ==
    Len(name) <= Len(id) /\ SubSeq(id, Len(id) - Len(name) + 1, Len(id)) = name

\* C11: a downstream call_tool causes at most one upstream request; a call
\* that succeeds caused exactly one, for the original name, on a connected
\* upstream that lists it; and when the selected upstream fails the request
\* no second upstream is asked and the call does not succeed.
C11_AtMostOneUpstreamRequest ==
    obs.op = "tools" =>
        /\ Len(obs.sent) <= 1
        /\ obs.reply.type = "result" =>
              /\ Len(obs.sent) = 1
              /\ obs.answer.type = "result"
              /\ obs.sent[1].server \in Offering("tools", obs.sent[1].name)
              /\ IsSuffix(obs.sent[1].name, obs.id)
        /\ (obs.sent # <<>> /\ obs.answer.type # "result") => obs.reply.type # "result"

\* the selected upstream failed a call on a name that another connected
\* upstream offers as well
C11_Witness ==
    /\ obs.op = "tools"
    /\ Len(obs.sent) = 1
    /\ obs.answer.type = "Exception"
    /\ obs.reply.type = "text"
    /\ Cardinality(Offering("tools", obs.sent[1].name)) = 2

\* C23: a resource of a connected upstream whose rewritten URI fails the URL
\* validation is absent from the aggregated resources, and the manager's
\* read_resource on that rewritten URI sends no request to any upstream.
C23_InvalidUriNotRoutable ==
    \A o \in Connected :
        \A i \in 1..Len(srv[o].resources) :
            LET namespace == get_effective_namespace(srv[o], "resources", bridge)
                rewritten == IF Truthy(namespace)
                             THEN Namespaced(namespace, srv[o].resources[i])
                             ELSE srv[o].resources[i]
            IN  ~ValidUrl(rewritten) =>
                    /\ \A j \in 1..Len(Aggregated("resources")) :
                           Aggregated("resources")[j].name # rewritten
                    /\ ManagerCall("resources", rewritten,
                                   [type |-> "result", code |-> 0]).sent = <<>>

\* C29: every aggregated list is ordered by ascending priority of the
\* upstreams, upstreams of equal priority in the order of the registry, and
\* the items of one upstream in the order of its own list; and with
\* default_namespace, a and b both listing tool s without a namespace of their
\* own and a not after b in priority, the items for s are a__s then b__s, and a
\* call on b__s is sent to b only, as s.
C29_OrderedByPriority ==
    /\ \A kind \in Kinds :
           \A i, j \in 1..Len(Aggregated(kind)) :
               LET x == Aggregated(kind)[i]
                   y == Aggregated(kind)[j]
                   Pos(o) == CHOOSE n \in 1..Len(servers) : servers[n] = o
                   Idx(item) == CHOOSE n \in 1..Len(ListOf(srv[item.server], kind)) :
                                    ListOf(srv[item.server], kind)[n] = item.original
               IN  i < j =>
                       /\ srv[x.server].config.priority <= srv[y.server].config.priority
                       /\ srv[x.server].config.priority = srv[y.server].config.priority =>
                              Pos(x.server) <= Pos(y.server)
                       /\ x.server = y.server => Idx(x) < Idx(y)
    /\ LET a == ServerNamed(Cur, <<"a">>)
           b == ServerNamed(Cur, <<"b">>)
           search == {i \in 1..Len(Aggregated("tools")) : Aggregated("tools")[i].original = s_}
       IN  (/\ bridge.present /\ bridge.default_namespace
            /\ a \in Offering("tools", s_) /\ b \in Offering("tools", s_)
            /\ ~Truthy(srv[a].config.tool_namespace)
            /\ ~Truthy(srv[b].config.tool_namespace)
            /\ srv[a].config.priority <= srv[b].config.priority) =>
               /\ Cardinality(search) = 2
               /\ \E i, j \in search :
                      /\ i < j
                      /\ Aggregated("tools")[i].name = a__s
                      /\ Aggregated("tools")[j].name = <<"b", "_", "_", "s">>
               /\ (obs.op = "tools" /\ obs.id = <<"b", "_", "_", "s">>) =>
                      obs.sent = <<[server |-> b, name |-> s_]>>

\* the tool b__s of the example has been called and b has answered
C29_Witness ==
    /\ bridge.present /\ bridge.default_namespace
    /\ Cardinality(Offering("tools", s_)) = 2
    /\ obs.op = "tools"
    /\ obs.id = <<"b", "_", "_", "s">>
    /\ Len(obs.sent) = 1
    /\ srv[obs.sent[1].server].name = <<"b">>
    /\ obs.sent[1].name = s_
    /\ obs.reply.type = "result"
    /\ Aggregated("tools")[1].name = a__s

-----------------------------------------------------------------------------
(* The facade: listings and fan-out requests on the bridge of two upstreams *)
(* (FacadeSpec)                                                             *)

FacadeList_WithoutConflictHandling(kind) ==
    LET cands == Candidates(SortedByPriority(get_active_servers), kind)
    IN  [i \in 1..Len(cands) |-> cands[i].name]

\* _list_tools / _list_resources / _list_prompts of the facade: the identifiers
\* of the aggregated list, or the empty list when the aggregator raises
FacadeList(kind) ==
    LET r == get_aggregated(kind)
    IN  IF r.raised THEN <<>> ELSE [i \in 1..Len(r.items) |-> r.items[i].name]

\* a downstream list_tools / list_resources / list_prompts request
ListCapabilities ==
    \E kind \in Kinds :
        /\ Idle
        /\ obs' = [op |-> "list", id |-> kind, sent |-> <<>>,
                   answer |-> [type |-> "result", code |-> 0],
                   reply |-> [type |-> "list", code |-> 0, items |-> FacadeList(kind)]]
        /\ UNCHANGED <<servers, srv, locks, lk, ready, waiting, children, phase,
                       starting, budget>>
        /\ Static

\* the second loop of subscribe_resource / unsubscribe_resource: every active
\* server that lists the URI and has a session is asked; AnyUrl(actual_uri)
\* raises inside the try for a string that is no URL
RECURSIVE SubscribeAll(_, _)
SubscribeAll(scan, actual_uri) ==
    IF scan = <<>> THEN <<>>
    ELSE (IF /\ InList(srv[Head(scan)].resources, actual_uri)
             /\ srv[Head(scan)].session # 0
             /\ ValidUrl(actual_uri)
          THEN <<[server |-> Head(scan), name |-> actual_uri]>>
          ELSE <<>>)
         \o SubscribeAll(Tail(scan), actual_uri)

\* ServerManager.subscribe_resource / unsubscribe_resource: the requests sent
\* upstream, in order; the coroutine returns None whatever the upstreams answer
subscribe_resource(resource_uri) ==
    IF Contains(resource_uri, SchemeSep)
    THEN LET parts == Split1(resource_uri, SchemeSep)
             server == FirstMatch(get_active_servers, "resources", parts[1], parts[2])
         IN  IF server = 0 \/ srv[server].session = 0 \/ ~ValidUrl(parts[2])
             THEN <<>>
             ELSE <<[server |-> server, name |-> parts[2]]>>
    ELSE SubscribeAll(get_active_servers, resource_uri)

\* a downstream resources/subscribe or resources/unsubscribe request; the
\* handlers _subscribe_resource / _unsubscribe_resource return EmptyResult
Subscribe ==
    \E op \in {"subscribe", "unsubscribe"}, id \in ResourceIds,
       answer \in {[type |-> "result", code |-> 0], [type |-> "Exception", code |-> 0]} :
        /\ Idle
        /\ obs' = [op |-> op, id |-> id, sent |-> subscribe_resource(id),
                   answer |-> answer, reply |-> [type |-> "result", code |-> 0]]
        /\ UNCHANGED <<servers, srv, locks, lk, ready, waiting, children, phase,
                       starting, budget>>
        /\ Static

\* the loop of get_completions over the active servers: answers[name] is what
\* the upstream of that name answers, a completion with its values or an error
RECURSIVE AllCompletions(_, _)
AllCompletions(scan, answers) ==
    IF scan = <<>> THEN [sent |-> <<>>, values |-> <<>>]
    ELSE LET rest == AllCompletions(Tail(scan), answers)
             answer == answers[srv[Head(scan)].name]
         IN  IF srv[Head(scan)].session = 0 THEN rest
             ELSE [sent |-> <<[server |-> Head(scan), name |-> <<"complete">>]>> \o rest.sent,
                   values |-> (IF answer.type = "result" THEN answer.values ELSE <<>>)
                              \o rest.values]

get_completions_AbortingOnError(answers) ==
    LET all == AllCompletions(get_active_servers, answers)
    IN  IF \E i \in 1..Len(all.sent) : answers[srv[all.sent[i].server].name].type # "result"
        THEN [sent |-> all.sent, values |-> <<>>]
        ELSE all

\* ServerManager.get_completions: the requests sent upstream and the list
\* returned, which keeps the first occurrence of every value
get_completions(answers) ==
    LET all == AllCompletions(get_active_servers, answers)
        first == {i \in 1..Len(all.values) :
                     \A j \in 1..(i - 1) : all.values[j] # all.values[i]}
    IN  [sent |-> all.sent,
         values |-> [n \in 1..Cardinality(first) |->
                        all.values[CHOOSE i \in first :
                                       Cardinality({l \in first : l <= i}) = n]]]

\* what one upstream answers to a completion request
CompletionAnswers ==
    {[type |-> "Exception", values |-> <<>>]}
    \cup {[type |-> "result", values |-> v] :
            v \in {<<>>, <<"x">>, <<"y", "x">>, <<"x", "z", "x">>}}

\* a downstream completion/complete request; _complete of the facade returns
\* the values of the manager
Complete ==
    \E answers \in [{<<"a">>, <<"b">>} -> CompletionAnswers] :
        /\ Idle
        /\ obs' = [op |-> "complete", id |-> <<>>, sent |-> get_completions(answers).sent,
                   answer |-> answers,
                   reply |-> [type |-> "completion", code |-> 0,
                              values |-> get_completions(answers).values]]
        /\ UNCHANGED <<servers, srv, locks, lk, ready, waiting, children, phase,
                       starting, budget>>
        /\ Static

FacadeNext ==
    \/ CallStart
    \/ ChildAnswers
    \/ SpawnFails
    \/ RunStartConnect
    \/ RunConnectSpawned
    \/ RunConnectInitialized
    \/ RunConnectLoaded
    \/ RunStartGathered
    \/ ListCapabilities
    \/ Subscribe
    \/ Complete

FacadeSpec == RouteInit /\ [][FacadeNext]_vars

C24_SubscribeForwarded ==
    \A j \in 1..Len(Aggregated("resources")) :
        LET item == Aggregated("resources")[j]
        IN  (obs.op \in {"subscribe", "unsubscribe"} /\ obs.id = item.name) =>
                /\ \E i \in 1..Len(obs.sent) : obs.sent[i].server = item.server
                /\ \A i \in 1..Len(obs.sent) :
                       /\ obs.sent[i].name = item.original
                       /\ obs.sent[i].server \in Offering("resources", item.original)
                /\ obs.reply.type = "result"

\* C27: the values returned by complete hold no value twice, are exactly the
\* values answered by the connected upstreams whose request succeeded, and are
\* ordered by first occurrence, upstream by upstream in the order of the
\* registry and within an upstream in the order of its answer; every
\* connected upstream is asked exactly once, failed ones included.
C27_CompletionsConcatenated ==
    obs.op = "complete" =>
        LET R == obs.reply.values
            \* the occurrences of value v: <<position of the upstream, index in its answer>>
            Occ(v) == {<<i, k>> \in (1..Len(servers)) \X (1..3) :
                          /\ servers[i] \in Connected
                          /\ obs.answer[srv[servers[i]].name].type = "result"
                          /\ k <= Len(obs.answer[srv[servers[i]].name].values)
                          /\ obs.answer[srv[servers[i]].name].values[k] = v}
            Before(p, q) == p[1] < q[1] \/ (p[1] = q[1] /\ p[2] < q[2])
        IN  /\ \A i, j \in 1..Len(R) : i # j => R[i] # R[j]
            /\ \A v \in {"x", "y", "z"} : (\E i \in 1..Len(R) : R[i] = v) <=> Occ(v) # {}
            /\ \A i, j \in 1..Len(R) :
                   i < j => \E p \in Occ(R[i]) : \A q \in Occ(R[j]) : Before(p, q)
            /\ {obs.sent[i].server : i \in 1..Len(obs.sent)} = Connected
            /\ Len(obs.sent) = Cardinality(Connected)

\* the first upstream fails the request, the second one answers y and x
C27_Witness ==
    /\ obs.op = "complete"
    /\ Cardinality(Connected) = 2
    /\ obs.answer[<<"a">>].type = "Exception"
    /\ obs.answer[<<"b">>].values = <<"y", "x">>
    /\ obs.reply.values = <<"y", "x">>

\* C30: for every upstream and kind, whatever namespaces (none, empty or a
\* text) its config holds for the three kinds, the effective namespace of the
\* kind is the explicit namespace of that kind when it is a non-empty text,
\* otherwise the name of the upstream when the bridge config exists and has
\* default_namespace, otherwise none; the namespaces of the other two kinds
\* have no influence.
C30_EffectiveNamespace ==
    \A o \in DOMAIN srv :
        \A tn, rn, pn \in {None, <<>>, <<"n">>} :
            LET server == [srv[o] EXCEPT !.config.tool_namespace = tn,
                                         !.config.resource_namespace = rn,
                                         !.config.prompt_namespace = pn]
                Explicit(kind) == CASE kind = "tools" -> tn
                                    [] kind = "resources" -> rn
                                    [] kind = "prompts" -> pn
            IN  \A kind \in Kinds :
                    get_effective_namespace(server, kind, bridge) =
                        IF Explicit(kind) \notin {None, <<>>} THEN Explicit(kind)
                        ELSE IF bridge.present /\ bridge.default_namespace
                        THEN srv[o].name
                        ELSE None

\* a listing was made on a bridge with default_namespace whose upstream a has a
\* namespace of its own for tools only
C30_Witness ==
    /\ obs.op = "list"
    /\ bridge.present /\ bridge.default_namespace
    /\ \E o \in Connected :
          /\ get_effective_namespace(srv[o], "tools", bridge) = n__m
          /\ get_effective_namespace(srv[o], "resources", bridge) = <<"a">>

-----------------------------------------------------------------------------
(* Properties of the supervisor (Spec) *)

\* the identifiers under which a tool or resource of the supervised upstream
\* can be requested
LifeIds == {<<"t">>, <<"a">> \o Sep \o <<"t">>, fx, <<"a">> \o Sep \o fx}

\* C4: an upstream whose status is not connected has no item in any
\* aggregated list and is not the target of any routed request.
C4_OnlyConnectedServe ==
    \A o \in DOMAIN srv :
        srv[o].health.status # CONNECTED =>
            \A kind \in Kinds :
                /\ \A i \in 1..Len(Aggregated(kind)) : Aggregated(kind)[i].server # o
                /\ \A id \in LifeIds : Route(kind, id).server # o

\* a registered upstream that failed while loading keeps the lists it had loaded
C4_Witness ==
    \E i \in 1..Len(servers) :
        /\ srv[servers[i]].health.status = FAILED
        /\ srv[servers[i]].tools # <<>>

IsPrefix(s, t) == Len(s) <= Len(t) /\ SubSeq(t, 1, Len(s)) = s

\* the step runs the task at the head of the ready queue: the head is popped
\* and the rest of the queue stays, while every other step keeps the head
HeadRuns ==
    /\ ready # <<>>
    /\ ~IsPrefix(ready, ready')
    /\ IsPrefix(Tail(ready), ready')

\* the task at the head of the ready queue is a failed probe of the connected
\* upstream o that brings o to the failure threshold
ReachesThreshold(o) ==
    /\ ready # <<>>
    /\ Head(ready).task.pc = "probe"
    /\ Head(ready).task.server = o
    /\ Head(ready).outcome = "fail"
    /\ srv[o].health.status = CONNECTED
    /\ \/ /\ Head(ready).task.kind = "health"
          /\ srv[o].health.consecutive_failures + 1 >= MaxFailures(srv[o])
       \/ /\ Head(ready).task.kind = "probe"
          /\ srv[o].health.keep_alive_failures + 1 >= max_keep_alive_failures

\* C5: when the handling of the failure that brings a connected upstream to
\* the threshold has completed, the status of the upstream is failed.
C5_ThresholdMarksFailed ==
    [][\A o \in DOMAIN srv :
          (ReachesThreshold(o) /\ HeadRuns) => srv'[o].health.status = FAILED]_vars

\* Scheduling: the event loop runs every ready task, the timer of every
\* sleeping task fires and a child that is not made to fail answers every task.
Fairness ==
    /\ \A kind \in AnyKind : WF_vars(ChildAnswersTo(kind))
    /\ \A kind \in AnyKind : WF_vars(TimerFiresFor(kind))
    /\ WF_vars(RunStartConnect)
    /\ WF_vars(RunConnectSpawned)
    /\ WF_vars(RunConnectInitialized)
    /\ WF_vars(RunConnectLoaded)
    /\ WF_vars(RunStartGathered)
    /\ WF_vars(RunHealthLoop)
    /\ WF_vars(RunHealthProbed)
    /\ WF_vars(RunKeepAliveLoop)
    /\ WF_vars(RunSendKeepAlive)
    /\ WF_vars(RunKeepAliveProbed)
    /\ WF_vars(RunRestart)
    /\ WF_vars(RunRestartAcquired)
    /\ WF_vars(RunRestartWake)
    /\ WF_vars(RunUpdateServers)

FairSpec == Spec /\ Fairness

\* the budget when the failure that reaches the threshold is the only fault
\* so far and the host has not reloaded
OneFault == [updates |-> MaxUpdates, faults |-> MaxFaults - 1]

\* the first upstream was taken down by the threshold with a restart
\* scheduled, after no other fault and no reload, and a child can be spawned
TakenDown ==
    /\ Len(srv) >= 1
    /\ servers = <<1>>
    /\ srv[1].health.status = DISCONNECTED
    /\ srv[1].health.restart_count = 0
    /\ RestartWanted(srv[1])
    /\ \E i \in 1..Len(ready) :
          ready[i].task.kind = "restart" /\ ready[i].task.pc = "begin" /\ ready[i].task.server = 1
    /\ \A k \in Tasks : k.kind \in {"health", "keepalive", "probe", "restart"}
    /\ budget = OneFault
    /\ Len(children) < MaxChildren

Restarted ==
    /\ Len(srv) >= 1
    /\ srv[1].health.status = CONNECTED
    /\ srv[1].health.restart_count = 1
    /\ \E i \in 1..Len(Aggregated("tools")) : Aggregated("tools")[i].server = 1

\* C6: an upstream with auto_restart and restart attempts left that the
\* failure threshold takes down is eventually connected again with
\* restart_count = 1 and its tools aggregated, unless a further fault or a
\* reload of the configuration comes in between.
C6_AutoRestartLiveness == TakenDown ~> (Restarted \/ budget # OneFault)

\* the first upstream is registered and failed, with auto_restart and restart
\* attempts left, while the manager is running
FailedRestartable ==
    /\ phase = "started"
    /\ Len(srv) >= 1
    /\ servers = <<1>>
    /\ srv[1].health.status = FAILED
    /\ RestartWanted(srv[1])

\* a restart procedure of the first upstream is past its status check
RestartAttempted ==
    \E k \in Tasks :
        /\ k.kind = "restart"
        /\ k.server = 1
        /\ k.pc \in {"sleep", "spawn", "init", "tools", "resources", "prompts"}

\* C39: an upstream that is failed with auto_restart and restart attempts left
\* eventually gets a restart attempt, unless it stops being failed or
\* restartable first.
C39_FailedEventuallyRestarted ==
    FailedRestartable ~> (RestartAttempted \/ ~FailedRestartable)

-----------------------------------------------------------------------------
(* Properties of the connection procedure and of the status (Spec) *)

\* C15: a stored tools, resources or prompts list is non-empty only for an
\* upstream whose status is connected and that advertised the capability.
C15_ListsOnlyWhenConnected ==
    \A o \in DOMAIN srv :
        \A kind \in Kinds :
            ListOf(srv[o], kind) # <<>> =>
                /\ srv[o].health.status = CONNECTED
                /\ kind \in srv[o].health.capabilities

\* the task at the head of the ready queue resumes _connect_server of the
\* upstream o after session.initialize() with the outcome
InitializeAnswered(o, outcome) ==
    /\ ready # <<>>
    /\ Head(ready).task.pc = "init"
    /\ Head(ready).task.server = o
    /\ Head(ready).outcome = outcome

StatusOf(o) == srv[o].health.status

\* C16: the status of an upstream becomes connected only in the step in which
\* the initialize exchange on the session the upstream holds has succeeded,
\* and the handling of a failed initialize does not leave it connected.
C16_ConnectedOnlyAfterInitialize ==
    [][\A o \in DOMAIN srv' :
          /\ ((o \notin DOMAIN srv \/ StatusOf(o) # CONNECTED) /\ StatusOf(o)' = CONNECTED) =>
                /\ o \in DOMAIN srv
                /\ InitializeAnswered(o, "ok")
                /\ Head(ready).task.sess = srv[o].session
          /\ (o \in DOMAIN srv /\ InitializeAnswered(o, "fail") /\ HeadRuns) =>
                StatusOf(o)' # CONNECTED]_vars

\* C17: every change of the status of a registered upstream, from one
\* suspension point of the manager's coroutines to the next, is one of the
\* listed transitions: connecting to connected or failed, connected to failed
\* or disconnected, failed to connecting or disconnected, any to disabled.
C17_OnlyListedTransitions ==
    [][LET listed ==
               {<<CONNECTING, CONNECTED>>, <<CONNECTING, FAILED>>, <<CONNECTED, FAILED>>,
                <<FAILED, CONNECTING>>, <<CONNECTED, DISCONNECTED>>,
                <<FAILED, DISCONNECTED>>}
               \cup {<<s, DISABLED>> : s \in ServerStatus}
       IN  \A o \in DOMAIN srv :
               (InList(servers', o) /\ StatusOf(o)' # StatusOf(o)) =>
                   <<StatusOf(o), StatusOf(o)'>> \in listed]_vars

\* the connection tasks of start() that the step cancels while they are
\* suspended
CancelledBy ==
    {k \in BagToSet(waiting) : k.kind = "start" /\ k \notin Tasks'}

\* C18: a connection task cancelled at a suspension point leaves its upstream
\* either connected with its session, or without session and neither
\* connecting nor connected.
C18_CancelLeavesNoHalfState ==
    [][\A k \in CancelledBy :
          \/ StatusOf(k.server)' = CONNECTED /\ srv'[k.server].session # 0
          \/ /\ srv'[k.server].session = 0
             /\ StatusOf(k.server)' \notin {CONNECTING, CONNECTED}]_vars

\* C14: a step that disconnects an upstream holding a session (it ends without
\* session and disconnected, disabled or connecting again) terminates the
\* child process of that session.
C14_DisconnectTerminatesChild ==
    [][\A o \in DOMAIN srv :
          (/\ srv[o].session # 0
           /\ srv'[o].session = 0
           /\ StatusOf(o)' \in {DISCONNECTED, DISABLED, CONNECTING}) =>
              children'[srv[o].session] = Closed]_vars

\* C25: whenever a registered upstream is connected on a connection that is
\* not its first one (a reconnect), its stored tools, resources and prompts
\* are the complete lists that the child of its current session serves.
C25_ListsLoadedWhenConnected ==
    \A o \in DOMAIN srv :
        (/\ InList(servers, o)
         /\ StatusOf(o) = CONNECTED
         /\ srv[o].session > 1) =>
            \A kind \in Kinds :
                ListOf(srv[o], kind) =
                    IF kind \in catalog[children[srv[o].session]].caps
                    THEN ListOf(catalog[children[srv[o].session]], kind)
                    ELSE <<>>

\* C32: in every reachable state a registered upstream whose config has
\* enabled = false (update_servers has disabled it and has not re-enabled or
\* removed it since) has the status disabled; in particular it is not connected.
C32_DisabledStaysOut ==
    \A o \in DOMAIN srv :
        (InList(servers, o) /\ ~srv[o].config.enabled) => StatusOf(o) = DISABLED

\* C35: in every reachable state a registered upstream whose status is
\* connected holds a session.
C35_ConnectedHasSession ==
    \A o \in DOMAIN srv :
        (InList(servers, o) /\ StatusOf(o) = CONNECTED) => srv[o].session # 0

\* C36: in every reachable state every upstream has at most one child process
\* that has been spawned and not terminated.
C36_OneLiveChildPerUpstream ==
    \A name \in DOMAIN catalog :
        Cardinality({c \in DOMAIN children : children[c] = name}) <= 1

\* C37: a step that resumes a keep-alive probe which was started on another
\* session than the one on which its upstream is connected now changes nothing
\* of the upstream, and a keep-alive step takes a connected upstream out of the connected set
\* only after the third consecutive failed probe of its current session.
C37_KeepAliveOwnConnection ==
    [][\A o \in DOMAIN srv :
          (RunKeepAliveProbed /\ Head(ready).task.server = o) =>
              /\ (/\ StatusOf(o) = CONNECTED
                  /\ srv[o].session # 0
                  /\ Head(ready).task.sess # srv[o].session) => srv'[o] = srv[o]
              /\ (StatusOf(o) = CONNECTED /\ StatusOf(o)' # CONNECTED) =>
                    /\ Head(ready).outcome = "fail"
                    /\ Head(ready).task.sess = srv[o].session
                    /\ srv[o].health.keep_alive_failures + 1 = max_keep_alive_failures]_vars

-----------------------------------------------------------------------------
(* Removal and re-addition of an upstream while a restart sleeps (ReaddSpec) *)

MaxReadds == 3

MaxReaddFaults == 4

\* auto_restart without keep-alive
ReaddHealthCheck ==
    [present |-> TRUE, enabled |-> FALSE, auto_restart |-> TRUE,
     max_restart_attempts |-> 1, max_consecutive_failures |-> 3]

ReaddCatalog ==
    [n \in {<<"a">>} |->
        [caps |-> {"tools"}, tools |-> <<<<"t">>>>, resources |-> <<>>, prompts |-> <<>>]]

\* the bridge starts without upstream; the host adds and removes upstream a
ReaddInit ==
    /\ bridge = LifeBridge
    /\ configured = <<>>
    /\ reloads = {<<>>, <<<<<<"a">>, LifeConfig(TRUE, 1, 1, ReaddHealthCheck)>>>>}
    /\ catalog = ReaddCatalog
    /\ servers = <<>>
    /\ srv = <<>>
    /\ locks = <<>>
    /\ lk = <<>>
    /\ ready = <<>>
    /\ waiting = EmptyBag
    /\ children = <<>>
    /\ phase = "new"
    /\ starting = 0
    /\ budget = [updates |-> MaxReadds, faults |-> MaxReaddFaults]
    /\ obs = NoObs

ReaddNext ==
    \/ CallStart
    \/ CallUpdateServers
    \/ ChildAnswers
    \/ ChildFails
    \/ TimerFires
    \/ RunConnectSpawned
    \/ RunConnectInitialized
    \/ RunConnectLoaded
    \/ RunHealthLoop
    \/ RunHealthProbed
    \/ RunRestart
    \/ RunRestartWake
    \/ RunUpdateServers

ReaddSpec == ReaddInit /\ [][ReaddNext]_vars

\* the restart tasks inside the critical section of _restart_server (past the
\* status check, up to the end of the reconnect) for an upstream of the name
InCriticalSection(name) ==
    {k \in Tasks : /\ k.kind = "restart"
                   /\ k.pc \in {"sleep", "spawn", "init", "tools", "resources", "prompts"}
                   /\ srv[k.server].name = name}

\* C7: for every upstream name, at most one restart procedure is inside its
\* critical section at any time.
C7_OneRestartPerName ==
    \A name \in DOMAIN catalog : Cardinality(InCriticalSection(name)) <= 1

\* C21: a reconfiguration step and a restart of the same upstream never
\* interleave: while update_servers is inside a connect attempt for an upstream
\* name, no restart task is inside the critical section for that name (asleep
\* before its reconnect, or inside its own connect attempt).
C21_ReconfigurationHoldsMutex ==
    LET connecting == {"spawn", "init", "tools", "resources", "prompts"}
    IN  \A u, r \in Tasks :
            (/\ u.kind = "update" /\ u.pc \in connecting
             /\ r.kind = "restart" /\ r.pc \in connecting \cup {"sleep"}) =>
                srv[u.server].name # srv[r.server].name

-----------------------------------------------------------------------------
(* Restart attempts under keep-alive and failover together (RestartSpec) *)

MaxRestartFaults == 6

RestartInit ==
    /\ bridge = LifeBridge
    /\ configured = <<<<<<"a">>, LifeConfig(TRUE, 1, 1, LifeHealthCheck(1))>>>>
    /\ reloads = {<<<<<<"a">>, LifeConfig(TRUE, 2, 1, LifeHealthCheck(1))>>>>}
    /\ catalog = ReaddCatalog
    /\ servers = <<>>
    /\ srv = <<>>
    /\ locks = <<>>
    /\ lk = <<>>
    /\ ready = <<>>
    /\ waiting = EmptyBag
    /\ children = <<>>
    /\ phase = "new"
    /\ starting = 0
    /\ budget = [updates |-> 1, faults |-> MaxRestartFaults]
    /\ obs = NoObs

RestartSpec == RestartInit /\ [][Next]_vars

\* C8: restart_count never exceeds max_restart_attempts, and with
\* max_restart_attempts = 0 the supervisor performs no restart.
C8_RestartCountBounded ==
    \A o \in DOMAIN srv :
        /\ srv[o].config.health_check.present =>
              srv[o].health.restart_count <= srv[o].config.health_check.max_restart_attempts
        /\ \A k \in Tasks : k.kind = "restart" /\ k.server = o /\ k.pc # "begin" /\ k.pc # "acquire"
              => srv[o].config.health_check.max_restart_attempts # 0

\* C33: the step in which a restart procedure obtains the lock changes nothing
\* of its upstream, spawns no child and suspends nothing when the status of the
\* upstream is not failed; when it is failed, the step increments restart_count
\* by one, changes nothing else and leaves the procedure asleep.  The step after
\* the sleep leaves the upstream without session, with consecutive_failures and
\* keep_alive_failures 0 and restart_count unchanged, connecting, with one
\* spawn in flight.  The steps of the connect attempt leave restart_count
\* unchanged, and the one that ends the procedure leaves the upstream
\* connected or failed.
C33_RestartProcedure ==
    [][\A o \in DOMAIN srv :
          LET connecting == {"spawn", "init", "tools", "resources", "prompts"}
          IN  /\ (/\ RunRestart \/ RunRestartAcquired
                  /\ Head(ready).task.server = o
                  /\ \A l \in DOMAIN lk : lk'[l].waiters = lk[l].waiters
                                          \/ Len(lk'[l].waiters) < Len(lk[l].waiters)) =>
                     IF StatusOf(o) # FAILED
                     THEN srv'[o] = srv[o] /\ children' = children /\ waiting' = waiting
                     ELSE /\ srv'[o] = [srv[o] EXCEPT !.health.restart_count = @ + 1]
                          /\ children' = children
                          /\ \E k \in BagToSet(waiting') :
                                k.kind = "restart" /\ k.pc = "sleep" /\ k.server = o
              /\ (RunRestartWake /\ Head(ready).task.server = o) =>
                     /\ srv'[o].session = 0
                     /\ srv'[o].health.consecutive_failures = 0
                     /\ srv'[o].health.keep_alive_failures = 0
                     /\ srv'[o].health.restart_count = srv[o].health.restart_count
                     /\ StatusOf(o)' = CONNECTING
                     /\ children' = children
                     /\ \E k \in BagToSet(waiting') :
                           /\ k.kind = "restart" /\ k.pc = "spawn" /\ k.server = o
                           /\ CopiesIn(k, waiting') = CopiesIn(k, waiting) + 1
              /\ (/\ RunConnectSpawned \/ RunConnectInitialized \/ RunConnectLoaded
                  /\ Head(ready).task.kind = "restart"
                  /\ Head(ready).task.server = o) =>
                     /\ srv'[o].health.restart_count = srv[o].health.restart_count
                     /\ Len(children') <= Len(children) + 1
                     /\ (\A k \in Tasks' : ~(k.kind = "restart" /\ k.server = o
                                             /\ k.pc \in connecting)) =>
                            StatusOf(o)' \in {CONNECTED, FAILED}]_vars

-----------------------------------------------------------------------------
(* Stop of the manager (StopSpec) *)

MaxStopFaults == 2

\* the bridge runs upstream a under failover and keep-alive and is stopped
\* after start() has returned; the configuration is not reloaded
StopInit ==
    /\ bridge = LifeBridge
    /\ configured = <<<<<<"a">>, LifeConfig(TRUE, 1, 1, LifeHealthCheck(2))>>>>
    /\ reloads = {}
    /\ catalog = ReaddCatalog
    /\ servers = <<>>
    /\ srv = <<>>
    /\ locks = <<>>
    /\ lk = <<>>
    /\ ready = <<>>
    /\ waiting = EmptyBag
    /\ children = <<>>
    /\ phase = "new"
    /\ starting = 0
    /\ budget = [updates |-> 0, faults |-> MaxStopFaults]
    /\ obs = NoObs

StopNext ==
    \/ CallStart
    \/ StartTimeout
    \/ CallStop
    \/ ChildAnswers
    \/ ChildFails
    \/ ChildGone
    \/ TimerFires
    \/ RunStartConnect
    \/ RunConnectSpawned
    \/ RunConnectInitialized
    \/ RunConnectLoaded
    \/ RunStartGathered
    \/ RunHealthLoop
    \/ RunHealthProbed
    \/ RunHealthCancelled
    \/ RunKeepAliveLoop
    \/ RunKeepAliveCancelled
    \/ RunSendKeepAlive
    \/ RunKeepAliveProbed
    \/ RunRestart
    \/ RunStopJoined
    \/ RunStopClosed

StopSpec == StopInit /\ [][StopNext]_vars

\* C19: once stop() has returned, every child process entered into the context
\* stack is terminated, and no step spawns a child, sends a probe to an
\* upstream or changes the status of an upstream.
C19_QuietAfterStop ==
    [][phase = "stopped" =>
          /\ \A c \in DOMAIN children : children[c] = Closed
          /\ children' = children
          /\ \A o \in DOMAIN srv : StatusOf(o)' = StatusOf(o)
          /\ \A k \in BagToSet(waiting') \ BagToSet(waiting) :
                k.pc \notin {"probe", "spawn"}]_vars

\* C20: once stop() has returned, no registered upstream is connected or
\* failed and the aggregated lists are empty.
C20_StoppedMeansDisconnected ==
    phase = "stopped" =>
        /\ \A i \in 1..Len(servers) : StatusOf(servers[i]) \notin {CONNECTED, FAILED}
        /\ \A kind \in Kinds : Aggregated(kind) = <<>>

-----------------------------------------------------------------------------
(* Reload of the configuration in force (ReloadSpec) *)

MaxReloads == 2

MaxReloadFaults == 2

\* the host reloads the configuration with upstream a enabled, with a
\* disabled, or without a
ReloadInit ==
    /\ bridge = LifeBridge
    /\ configured = <<<<<<"a">>, LifeConfig(TRUE, 1, 1, ReaddHealthCheck)>>>>
    /\ reloads = {<<>>,
                  <<<<<<"a">>, LifeConfig(TRUE, 1, 1, ReaddHealthCheck)>>>>,
                  <<<<<<"a">>, LifeConfig(FALSE, 1, 1, ReaddHealthCheck)>>>>}
    /\ catalog = ReaddCatalog
    /\ servers = <<>>
    /\ srv = <<>>
    /\ locks = <<>>
    /\ lk = <<>>
    /\ ready = <<>>
    /\ waiting = EmptyBag
    /\ children = <<>>
    /\ phase = "new"
    /\ starting = 0
    /\ budget = [updates |-> MaxReloads, faults |-> MaxReloadFaults]
    /\ obs = NoObs

ReloadNext ==
    \/ CallStart
    \/ StartTimeout
    \/ CallUpdateServers
    \/ ChildAnswers
    \/ ChildFails
    \/ TimerFires
    \/ RunStartConnect
    \/ RunConnectSpawned
    \/ RunConnectInitialized
    \/ RunConnectLoaded
    \/ RunStartGathered
    \/ RunHealthLoop
    \/ RunHealthProbed
    \/ RunRestart
    \/ RunRestartWake
    \/ RunUpdateServers

ReloadSpec == ReloadInit /\ [][ReloadNext]_vars

\* the configuration is the one in force: every registered upstream has the
\* config given for its name, and the other names given are disabled
InForce(configs) ==
    /\ Names(Cur) \subseteq NamesIn(configs)
    /\ \A i \in 1..Len(configs) :
          LET o == ServerNamed(Cur, configs[i][1])
          IN  IF o = 0 THEN ~configs[i][2].enabled ELSE srv[o].config = configs[i][2]

\* the task at the head of the ready queue is update_servers called with the
\* configuration in force
ReloadsInForce ==
    /\ ready # <<>>
    /\ Head(ready).task.kind = "update"
    /\ Head(ready).task.pc = "begin"
    /\ InForce(Head(ready).task.work.configs)

\* C12: update_servers called with the configuration in force returns without
\* changing anything: no record, status, counter, list, session or restart
\* lock changes, no upstream is added or removed and no connection is begun.
C12_ReloadIdempotent ==
    [][(ReloadsInForce /\ HeadRuns) =>
          /\ servers' = servers
          /\ srv' = srv
          /\ locks' = locks
          /\ lk' = lk
          /\ children' = children
          /\ waiting' = waiting
          /\ ready' = Tail(ready)]_vars

\* both reloads have run and the first upstream is registered and disabled:
\* the configuration in force was reloaded, before the disabling reload while
\* the upstream was enabled or after it while the upstream was disabled
C12_Witness ==
    /\ budget.updates = 0
    /\ \A k \in Tasks : k.kind # "update"
    /\ servers = <<1>>
    /\ StatusOf(1) = DISABLED

-----------------------------------------------------------------------------
(* Reload from {a, b} to {b, c} (SwapSpec) *)

MaxSwapFaults == 1

SwapBridge ==
    [present |-> TRUE, default_namespace |-> FALSE, conflict_resolution |-> "priority",
     failover |-> [present |-> FALSE, enabled |-> FALSE, max_failures |-> 3]]

\* every upstream lists one tool, named like the upstream
SwapCatalog ==
    [n \in {<<"a">>, <<"b">>, <<"c">>} |->
        [caps |-> {"tools"}, tools |-> <<n>>, resources |-> <<>>, prompts |-> <<>>]]

SwapConfig == LifeConfig(TRUE, 1, 1, NoHealthCheck)

SwapInit ==
    /\ bridge = SwapBridge
    /\ configured = <<<<<<"a">>, SwapConfig>>, <<<<"b">>, SwapConfig>>>>
    /\ reloads = {<<<<<<"b">>, SwapConfig>>, <<<<"c">>, SwapConfig>>>>}
    /\ catalog = SwapCatalog
    /\ servers = <<>>
    /\ srv = <<>>
    /\ locks = <<>>
    /\ lk = <<>>
    /\ ready = <<>>
    /\ waiting = EmptyBag
    /\ children = <<>>
    /\ phase = "new"
    /\ starting = 0
    /\ budget = [updates |-> 1, faults |-> MaxSwapFaults]
    /\ obs = NoObs

SwapNext ==
    \/ CallStart
    \/ StartTimeout
    \/ CallUpdateServers
    \/ ChildAnswers
    \/ ChildFails
    \/ RunStartConnect
    \/ RunConnectSpawned
    \/ RunConnectInitialized
    \/ RunConnectLoaded
    \/ RunStartGathered
    \/ RunUpdateServers

SwapSpec == SwapInit /\ [][SwapNext]_vars

\* the step runs a segment of update_servers
UpdateRuns ==
    /\ ready # <<>>
    /\ Head(ready).task.kind = "update"
    /\ HeadRuns

\* update_servers has been called and has returned
ReloadDone ==
    /\ budget.updates = 0
    /\ \A k \in Tasks : k.kind # "update"

\* C13: the reload from {a, b} to {b, c} with b's configuration unchanged
\* leaves the record of b as it is in every step it takes; its first step
\* removes the record and the restart lock of a and begins the connection of a
\* new record of c; and when it has returned, every aggregated item belongs
\* to b or to c.
C13_ReloadSwapsOnlyWhatChanged ==
    [][/\ UpdateRuns =>
             LET b == ServerNamed(Cur, <<"b">>)
             IN  /\ b # 0
                 /\ srv'[b] = srv[b]
                 /\ InList(servers', b)
                 /\ Head(ready).task.pc = "begin" =>
                       /\ \A i \in 1..Len(servers') : srv'[servers'[i]].name # <<"a">>
                       /\ <<"a">> \notin DOMAIN locks'
                       /\ \E k \in BagToSet(waiting') :
                             /\ k.kind = "update"
                             /\ k.pc = "spawn"
                             /\ InList(servers', k.server)
                             /\ k.server \notin DOMAIN srv
                             /\ srv'[k.server].name = <<"c">>
       /\ ReloadDone' =>
             \A kind \in Kinds :
                 \A i \in 1..Len(Aggregated(kind)') :
                     srv'[Aggregated(kind)'[i].server].name \in {<<"b">>, <<"c">>}]_vars

\* a, b and c have each spawned a child; after the reload b is connected on
\* its first session, c is connected, and the tools of both are aggregated
C13_Witness ==
    /\ ReloadDone
    /\ Len(children) = 3
    /\ Len(servers) = 2
    /\ \A i \in 1..Len(servers) : StatusOf(servers[i]) = CONNECTED
    /\ srv[ServerNamed(Cur, <<"b">>)].session = 2
    /\ Len(Aggregated("tools")) = 2

\* C26: the step in which a connection attempt of start() or update_servers()
\* fails (the spawn or the initialize fails, or a list request runs into the
\* timeout of the upstream) leaves that upstream failed, without session, with
\* last_error set and failure_count incremented, changes the record of no
\* other upstream, and lets start() go on gathering.
C26_FailedStartIsContained ==
    [][\A o \in DOMAIN srv :
          (/\ RunConnectSpawned \/ RunConnectInitialized \/ RunConnectLoaded
           /\ Head(ready).task.kind \in {"start", "update"}
           /\ Head(ready).task.server = o
           /\ \/ Head(ready).task.pc \in {"spawn", "init"} /\ Head(ready).outcome = "fail"
              \/ /\ Head(ready).task.pc \in {"tools", "resources", "prompts"}
                 /\ Head(ready).outcome = "timeout") =>
              /\ StatusOf(o)' = FAILED
              /\ srv'[o].session = 0
              /\ srv'[o].health.last_error
              /\ srv'[o].health.failure_count = srv[o].health.failure_count + 1
              /\ \A p \in (DOMAIN srv) \ {o} : srv'[p] = srv[p]
              /\ Head(ready).task.kind = "start" => starting' = starting - 1]_vars

\* one upstream has failed to start while another one is connected
C26_Witness ==
    /\ budget.faults < MaxSwapFaults
    /\ \E o, p \in DOMAIN srv :
          /\ InList(servers, o) /\ InList(servers, p)
          /\ StatusOf(o) = FAILED
          /\ srv[o].session = 0
          /\ srv[o].health.failure_count = 1
          /\ StatusOf(p) = CONNECTED
          /\ srv[p].session # 0

-----------------------------------------------------------------------------
(* The failover loop with a failure threshold of two (FailoverSpec) *)

FailoverBridge ==
    [present |-> TRUE, default_namespace |-> FALSE, conflict_resolution |-> "priority",
     failover |-> [present |-> TRUE, enabled |-> TRUE, max_failures |-> 2]]

\* upstream a under the failover loop, without keep-alive; the host may reload
\* the config with another command or with another priority
FailoverInit ==
    /\ bridge = FailoverBridge
    /\ configured = <<<<<<"a">>, LifeConfig(TRUE, 1, 1, ReaddHealthCheck)>>>>
    /\ reloads = {<<<<<<"a">>, LifeConfig(TRUE, 2, 1, ReaddHealthCheck)>>>>,
                  <<<<<<"a">>, LifeConfig(TRUE, 1, 2, ReaddHealthCheck)>>>>}
    /\ catalog = ReaddCatalog
    /\ servers = <<>>
    /\ srv = <<>>
    /\ locks = <<>>
    /\ lk = <<>>
    /\ ready = <<>>
    /\ waiting = EmptyBag
    /\ children = <<>>
    /\ phase = "new"
    /\ starting = 0
    /\ budget = [updates |-> MaxUpdates, faults |-> MaxFaults]
    /\ obs = NoObs

FailoverNext ==
    \/ CallStart
    \/ CallUpdateServers
    \/ ChildAnswers
    \/ ChildFails
    \/ TimerFires
    \/ RunStartConnect
    \/ RunConnectSpawned
    \/ RunConnectInitialized
    \/ RunConnectLoaded
    \/ RunStartGathered
    \/ RunHealthLoop
    \/ RunHealthProbed
    \/ RunRestart
    \/ RunRestartWake
    \/ RunUpdateServers

FailoverSpec == FailoverInit /\ [][FailoverNext]_vars

\* C34: a step of the failover loop that resumes after a successful probe
\* leaves consecutive_failures 0; one that resumes after a failed probe
\* increments failure_count by one and, below the threshold, increments
\* consecutive_failures by one and leaves the status as it is; such a step
\* takes a connected upstream out of the connected set only when the failure
\* brings consecutive_failures to max_failures; and after every step a
\* connected upstream has consecutive_failures < max_failures.
C34_ConnectedBelowThreshold ==
    [][\A o \in DOMAIN srv :
          /\ o \in DOMAIN srv' /\ StatusOf(o)' = CONNECTED =>
                srv'[o].health.consecutive_failures < MaxFailures(srv'[o])
          /\ (RunHealthProbed /\ Head(ready).task.server = o) =>
                IF Head(ready).outcome = "ok"
                THEN /\ srv'[o].health.consecutive_failures = 0
                     /\ srv'[o].health.failure_count = srv[o].health.failure_count
                     /\ StatusOf(o)' = StatusOf(o)
                ELSE /\ srv'[o].health.failure_count = srv[o].health.failure_count + 1
                     /\ IF srv[o].health.consecutive_failures + 1 < MaxFailures(srv[o])
                        THEN /\ srv'[o].health.consecutive_failures =
                                    srv[o].health.consecutive_failures + 1
                             /\ StatusOf(o)' = StatusOf(o)
                             /\ srv'[o].session = srv[o].session
                        ELSE StatusOf(o)' # CONNECTED]_vars

\* the connected upstream has one failed probe behind it: one below the threshold
C34_Witness ==
    \E i \in 1..Len(servers) :
        /\ StatusOf(servers[i]) = CONNECTED
        /\ srv[servers[i]].health.consecutive_failures = 1
        /\ srv[servers[i]].health.failure_count = 1
        /\ MaxFailures(srv[servers[i]]) = 2

\* C31: when update_servers runs on a registered upstream that is enabled and
\* stays enabled with a changed config: if the command changed, the upstream is
\* disconnected (no session, empty lists), holds the new config and is
\* connecting with a spawn in flight; if only other fields changed, the step
\* replaces the config and changes nothing else of the upstream, spawns no
\* child, and starts no connect attempt.
C31_UpdateReconnectsOnlyOnCommand ==
    [][(RunUpdateServers /\ servers # <<>>) =>
          LET configs == Head(ready).task.work.configs
          IN  \A i \in 1..Len(configs), o \in DOMAIN srv :
                  LET new == configs[i][2]
                  IN  (/\ o = ServerNamed(Cur, configs[i][1])
                       /\ srv[o].config.enabled /\ new.enabled /\ srv[o].config # new) =>
                          IF srv[o].config.command # new.command
                          THEN /\ srv'[o].config = new
                               /\ srv'[o].session = 0
                               /\ \A kind \in Kinds : ListOf(srv'[o], kind) = <<>>
                               /\ StatusOf(o)' = CONNECTING
                               /\ \E u \in BagToSet(waiting') :
                                     u.kind = "update" /\ u.pc = "spawn" /\ u.server = o
                          ELSE /\ srv'[o] = [srv[o] EXCEPT !.config = new]
                               /\ children' = children
                               /\ \A u \in Tasks' : u.kind # "update"]_vars

\* the reload changed only the priority of the connected upstream, which is
\* still connected on its session with its lists
C31_Witness ==
    /\ budget.updates = 0
    /\ \A k \in Tasks : k.kind # "update"
    /\ \E i \in 1..Len(servers) :
          /\ srv[servers[i]].config.priority = 2
          /\ StatusOf(servers[i]) = CONNECTED
          /\ srv[servers[i]].session # 0
          /\ srv[servers[i]].tools # <<>>

-----------------------------------------------------------------------------
(* Keep-alive of an upstream that is added after start() (LateSpec) *)

MaxLateFaults == 1

\* keep-alive without auto_restart
LateHealthCheck ==
    [present |-> TRUE, enabled |-> TRUE, auto_restart |-> FALSE,
     max_restart_attempts |-> 0, max_consecutive_failures |-> 3]

\* the bridge starts with upstream a or without upstream; the host reloads a
\* configuration that has a, with keep-alive enabled
LateInit ==
    /\ bridge = LifeBridge
    /\ configured \in {<<>>, <<<<<<"a">>, LifeConfig(TRUE, 1, 1, LateHealthCheck)>>>>}
    /\ reloads = {<<<<<<"a">>, LifeConfig(TRUE, 1, 1, LateHealthCheck)>>>>}
    /\ catalog = ReaddCatalog
    /\ servers = <<>>
    /\ srv = <<>>
    /\ locks = <<>>
    /\ lk = <<>>
    /\ ready = <<>>
    /\ waiting = EmptyBag
    /\ children = <<>>
    /\ phase = "new"
    /\ starting = 0
    /\ budget = [updates |-> 1, faults |-> MaxLateFaults]
    /\ obs = NoObs

LateNext ==
    \/ CallStart
    \/ CallUpdateServers
    \/ ChildAnswers
    \/ ChildFails
    \/ TimerFires
    \/ RunStartConnect
    \/ RunConnectSpawned
    \/ RunConnectInitialized
    \/ RunConnectLoaded
    \/ RunStartGathered
    \/ RunHealthLoop
    \/ RunHealthProbed
    \/ RunKeepAliveLoop
    \/ RunSendKeepAlive
    \/ RunKeepAliveProbed
    \/ RunUpdateServers

\* an iteration of the keep-alive loop at which the interval of every upstream
\* has elapsed
RunKeepAliveLoopDue ==
    /\ Runs({"keepalive"}, {"loop", "sleep"}, {"run", "wake"})
    /\ phase = "started"
    /\ Install(KeepAliveLoop(Popped, Head(ready).task,
                             {o \in DOMAIN srv : Cardinality(ProbesOf(o)) < MaxProbes}))

\* Scheduling: the event loop runs every ready task, every timer fires, a
\* child that is not made to fail answers, and time passes, so that the
\* keep-alive loop again and again finds the intervals elapsed.
LateFairness ==
    /\ \A kind \in AnyKind : WF_vars(ChildAnswersTo(kind))
    /\ \A kind \in AnyKind : WF_vars(TimerFiresFor(kind))
    /\ WF_vars(RunStartConnect)
    /\ WF_vars(RunConnectSpawned)
    /\ WF_vars(RunConnectInitialized)
    /\ WF_vars(RunConnectLoaded)
    /\ WF_vars(RunStartGathered)
    /\ WF_vars(RunHealthLoop)
    /\ WF_vars(RunHealthProbed)
    /\ WF_vars(RunKeepAliveLoop)
    /\ SF_vars(RunKeepAliveLoopDue)
    /\ WF_vars(RunSendKeepAlive)
    /\ WF_vars(RunKeepAliveProbed)
    /\ WF_vars(RunUpdateServers)

LateSpec == LateInit /\ [][LateNext]_vars /\ LateFairness

\* the first upstream is registered and connected on a session, with
\* health_check.enabled, while the manager is running
KeepAliveWanted ==
    /\ phase = "started"
    /\ Len(srv) >= 1
    /\ servers = <<1>>
    /\ StatusOf(1) = CONNECTED
    /\ srv[1].session # 0
    /\ srv[1].config.health_check.present
    /\ srv[1].config.health_check.enabled

\* C38: an upstream that is connected with health_check.enabled while the
\* manager is running is eventually probed by the keep-alive loop, unless it
\* stops being connected first.
C38_KeepAliveEventuallyProbes ==
    KeepAliveWanted ~> (ProbesOf(1) # {} \/ ~KeepAliveWanted)

-----------------------------------------------------------------------------
(* The tag-filtered bridge (TagSpec) *)

matches_tag_filter_UnknownModeAsUnion(server_config, tags, tag_mode) ==
    IF server_config.tags = {} THEN FALSE
    ELSE IF tag_mode = "intersection" THEN tags \subseteq server_config.tags
    ELSE tags \cap server_config.tags # {}

\* matches_tag_filter of create_tag_filtered_bridge; a config without tags
\* (None or the empty list) has tags = {}
matches_tag_filter(server_config, tags, tag_mode) ==
    IF server_config.tags = {} THEN FALSE
    ELSE IF tag_mode = "intersection" THEN tags \subseteq server_config.tags
    ELSE IF tag_mode = "union" THEN tags \cap server_config.tags # {}
    ELSE FALSE

\* the dict comprehension filtered_servers, in the order of the servers dict
RECURSIVE filtered_servers(_, _, _)
filtered_servers(all, tags, tag_mode) ==
    IF all = <<>> THEN <<>>
    ELSE (IF Head(all)[2].enabled /\ matches_tag_filter(Head(all)[2], tags, tag_mode)
          THEN <<Head(all)>> ELSE <<>>)
         \o filtered_servers(Tail(all), tags, tag_mode)

TagConfig(enabled, tags) ==
    [enabled |-> enabled, command |-> 1, priority |-> 1,
     tool_namespace |-> None, resource_namespace |-> None, prompt_namespace |-> None,
     tags |-> tags, health_check |-> NoHealthCheck]

\* create_tag_filtered_bridge is about to be called with the servers, tags and
\* tag_mode held in obs; no manager exists yet
TagInit ==
    /\ bridge = [present |-> FALSE, default_namespace |-> FALSE,
                 conflict_resolution |-> "priority",
                 failover |-> [present |-> FALSE, enabled |-> FALSE, max_failures |-> 3]]
    /\ configured = <<>>
    /\ catalog = [n \in {<<"a">>, <<"b">>} |-> RouteCatalogA]
    /\ servers = <<>>
    /\ srv = <<>>
    /\ locks = <<>>
    /\ lk = <<>>
    /\ ready = <<>>
    /\ waiting = EmptyBag
    /\ children = <<>>
    /\ phase = "none"
    /\ starting = 0
    /\ reloads = {}
    /\ budget = [updates |-> 0, faults |-> 0]
    /\ \E ea, eb \in BOOLEAN, ta \in {{}, {"p"}, {"p", "q"}}, tb \in {{}, {"q"}, {"p", "q"}},
          tags \in {{}, {"p"}, {"p", "q"}, {"r"}},
          tag_mode \in {"intersection", "union", "all"} :
           obs = [op |-> "tag_bridge",
                  servers |-> <<<<<<"a">>, TagConfig(ea, ta)>>, <<<<"b">>, TagConfig(eb, tb)>>>>,
                  tags |-> tags, tag_mode |-> tag_mode]

\* create_tag_filtered_bridge up to ServerManager(tag_bridge_config); the
\* start() it awaits next is CallStart
CreateTagFilteredBridge ==
    /\ phase = "none"
    /\ phase' = "new"
    /\ configured' = filtered_servers(obs.servers, obs.tags, obs.tag_mode)
    /\ UNCHANGED <<bridge, catalog, reloads, servers, srv, locks, lk, ready, waiting,
                   children, starting, budget, obs>>

TagNext ==
    \/ CreateTagFilteredBridge
    \/ CallStart
    \/ ChildAnswers
    \/ RunStartConnect
    \/ RunConnectSpawned
    \/ RunConnectInitialized
    \/ RunConnectLoaded
    \/ RunStartGathered

TagSpec == TagInit /\ [][TagNext]_vars

\* C28: once the tag-filtered bridge has started, the upstreams it manages are
\* exactly the enabled ones with a tag set that holds every filter tag
\* (intersection) or shares a tag with the filter (union); an upstream without
\* tags is not managed and an unknown tag_mode selects none.
C28_TagFilterSelects ==
    phase = "started" =>
        /\ Names(Cur) =
              {obs.servers[i][1] : i \in
                  {i \in 1..Len(obs.servers) :
                      LET c == obs.servers[i][2]
                      IN  /\ c.enabled
                          /\ c.tags # {}
                          /\ \/ /\ obs.tag_mode = "intersection"
                                /\ \A x \in obs.tags : x \in c.tags
                             \/ /\ obs.tag_mode = "union"
                                /\ \E x \in obs.tags : x \in c.tags}}
        /\ Len(servers) = Cardinality(Names(Cur))

\* union mode: a shares tag p with the filter and is connected, b does not
C28_Witness ==
    /\ phase = "started"
    /\ obs.tag_mode = "union"
    /\ obs.tags = {"p"}
    /\ obs.servers[2][2].enabled /\ obs.servers[2][2].tags = {"q"}
    /\ Len(servers) = 1
    /\ srv[servers[1]].name = <<"a">>
    /\ StatusOf(servers[1]) = CONNECTED

====
